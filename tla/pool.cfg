SPECIFICATION Spec
CONSTANTS
    NThreads = 3
    QueueSize = 2
    MaxAdds = 4
    NoTask = NoTask
INVARIANTS WakeUpsCover FreedWhenGone
PROPERTIES ImplementsTaskPool TasksStart DestroyReturns
