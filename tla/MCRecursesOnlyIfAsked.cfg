SPECIFICATION Spec
CONSTANTS
    Copier = {c1}
    Dirs <- MCDirs
    Files <- MCFiles
    Size <- MCSize
    Roots <- MCRoots
    Given = {"no", "dict of no"}
INVARIANT RecursesOnlyIfAsked
CHECK_DEADLOCK FALSE
