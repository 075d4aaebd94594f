CONSTANTS
    MaxVer = 3
    Uis = {u1, u2}
    NoUi = NoUi
    u1 = u1
    u2 = u2
    AutoUis = {u1}
    Answers <- MCAnswers
    MaxChanges = 1
    MaxStream = 1
    Templates = {tMain, tLayout, tExtra}
    NoTemplate = NoTemplate
    tMain = tMain
    tLayout = tLayout
    tExtra = tExtra
    Unparsable = {1}
    Broken = {0}
    AutoUpdateLayout = FALSE
    AutoUpdateContent = TRUE
    Markups <- MCMarkups
    Datas <- MCDatas
    MaxPrinted = 12
    Amounts <- MCAmounts
    BlockSizes = {0, 1, 2, 3}
    MaxCharacters = 7
    Keys = {"src", "choice"}
    MaxPairs = 2
    MaxItems = 3
SPECIFICATION Spec
INVARIANTS WindowAgrees PageShows PagesPrint
PROPERTIES UserIsTold PageGoesOn
