\* One topic of three posts by two authors, two requests in flight.
SPECIFICATION Spec
CONSTANTS
    main = main
    trash = trash
    None = None
    Boards <- MCBoards
    Trash = trash
    Topics = {t1}
    Posts = {1, 2, 3}
    Authors = {alice, bob}
    Requests = {s1, s2}
INVARIANTS
    LastPostsAreLive
\* The posts of the one topic are used up.
CHECK_DEADLOCK FALSE
