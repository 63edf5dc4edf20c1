SPECIFICATION Spec
INVARIANTS TypeOK CacheSound DataPathLands BusyWaitLands StartConfigured RestState
