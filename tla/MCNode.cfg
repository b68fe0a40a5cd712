SPECIFICATION Spec
INVARIANTS TypeOK PortalHasThePort
PROPERTIES RestartIsNoDoubleReset LinksSettle SupervisorFollows
