SPECIFICATION Spec
INVARIANTS LedgerTrue Upgraded
PROPERTIES NeverBack
