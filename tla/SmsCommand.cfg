CONSTANTS
    Characters <- MCCharacters
    Numbers <- MCNumbers
    Messages <- MCMessages
    Lines <- MCLines
    CC <- MCCC
    Owner <- MCOwner
    MaxCommand = 15
    MaxKey = 8
    MaxPhone = 5
SPECIFICATION Spec
INVARIANTS TypeOK
PROPERTIES OnlyOwnersCommand OwnersSetWhatIsListed OnlyTheNamedLineChanges
