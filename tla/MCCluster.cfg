CONSTANTS
 Servers={n1,n2}
 Guests={g1}
 First=n1
 MaxEvents=4
 h1=h1
 Hosts={h1,h2,h3}
 BootstrapExpected=3
 Settings<-MCSettings
SPECIFICATION ClusterSpec
INVARIANTS NoNewsIsLost BootstrapsOnce
PROPERTIES RemovedOnlyIfLeft PendingProcessed SomebodyBootstraps
CHECK_DEADLOCK FALSE
