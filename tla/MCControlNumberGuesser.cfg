CONSTANTS
    c1 = c1
    c2 = c2
    c3 = c3
    Titles <- MCTitles
    TitleKey <- MCTitleKey
    Authors <- MCAuthors
    AuthorKey <- MCAuthorKey
    AuthorOrder <- MCAuthorOrder
    Years <- MCYears
    CNs <- MCCNs
    MaxCalls = 4
    MaxIter = 2
SYMMETRY Symmetry
INIT Init
NEXT Next
INVARIANTS
    TypeOK
    GuessedAreIndexedMatches
    PartnersShareTitleAndAuthor
