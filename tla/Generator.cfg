SPECIFICATION Spec
CONSTANTS
    Chips = {"c6", "s3"}
    Xtensa = {"s3"}
    Template <- MCTemplate
    CatRequires <- MCCatRequires
    Modules <- MCModules
    Reserved = {"wroom-2"}
    ToolLists <- MCToolLists
    Generic = {"stable"}
    CommandLines <- MCCommandLines
    Files <- MCFiles
    Top = "top"
    NoTool = "none"
CHECK_DEADLOCK FALSE
INVARIANTS SelectionConsistent SavedIsGenerated FilesFollowConditions
PROPERTY ScanKeepsSelection
