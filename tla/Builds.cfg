SPECIFICATION Spec
INVARIANTS
    OneServiceVersion TargetsReachable ServedAsDeclared Placed SettingsRespected
    RoutedAsDeclared KeepsWhatAWSFixes ListenerPrecedence HostsServed StatusTellsTruth
CHECK_DEADLOCK FALSE
