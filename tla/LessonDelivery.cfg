SPECIFICATION MCSpec
CONSTANTS
    Documents = {a1, a2, b1}
    Families = {1, 2}
    Keys = {1, 2}
    Contexts = {c1}
    Hooks = {h1, h2}
    Writers = {w1}
    FamilyOf <- FamilyOfDocument
    KeyOf <- KeyOfFamily
    Severity <- SeverityOfDocument
    Lesson <- LessonOfDocument
    ExpandLimit = 2
    FileRoom = 1
    SectionCost = 2
    PromptBudget = 3
    MaxRecur = 2
    a1 = a1
    a2 = a2
    b1 = b1
SYMMETRY Symmetry
INVARIANTS
    DeliveryTypeOK
    WithheldWasDelivered
    EveryLessonNamed
