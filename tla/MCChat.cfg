CONSTANTS
    hello = hello
    helloRed = helloRed
    bye = bye
    i1 = i1
    i2 = i2
    i3 = i3
    none = none
    red = red
    pic = pic
    Chats = {hello, bye}
    Identities = {i1, i2, i3}
    NoOne = NoOne
    clientDataLimit = 2
    MaxPending = 2
    Messages = {hello, helloRed, bye}
    Notice = Notice
    textOf <- MCtextOf
    NoText = ""
    messageLimit = 4
    MaxTold = 5
    MaxSlides = 2
    Duration = 3
    Images = {pic}
    imageRetryLimit = 2
    Volumes = {0, 25, 40}
    Terms = {none, red}
    NoTerm = none
    Unset = Unset
    defaultMusicVolume = 25
    MaxPopups = 1
    MaxSent = 2
SPECIFICATION Spec
INVARIANTS ListShows
PROPERTIES ChatDelivers WidgetsRest SettingsKept
