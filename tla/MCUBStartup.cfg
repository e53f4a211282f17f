SPECIFICATION FairSpec
CONSTANT Names <- MCNames
INVARIANTS TypeOK AgentsFindTheirObject AddressBook NoLinkFails
PROPERTY ComesUp
CHECK_DEADLOCK FALSE
