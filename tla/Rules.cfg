SPECIFICATION Spec
CONSTANTS
  MaxOrganizations = 3
  MaxGrants = 2
  MaxRows = 4
  NoName = ""
  CleanName <- MCCleanName
  Government <- MCGovernment
  Banks <- MCBanks
  Pointers <- MCPointers
  StopWords <- MCStopWords
  WordTwins <- MCWordTwins
  NameScore <- MCNameScore
  Places <- MCPlaces
  FiveDigits <- MCFiveDigits
  NoZip = "no zip"
  FirstFive <- MCFirstFive
  AddressScore <- MCAddressScore
  Streets <- MCStreets
  LineEndsIn <- MCLineEndsIn
  StateCode <- MCStateCode
  USStates <- MCUSStates
  ForeignEINs <- MCForeignEINs
  KeyBefore <- MCKeyBefore
  MaxIdentities = 3
  MaxQueries = 2
  MaxPayments = 3
  MaxYears = 2
  MaxLines = 4
  MaxVersions = 3
  NotGiven = "not given"
  Domain <- MCDomain
  NineDigits <- MCNineDigits
  FunderEIN <- MCFunderEIN
  NameHolds <- MCNameHolds
  DomainStarts <- MCDomainStarts
  CollatesBefore <- MCCollatesBefore
  CodePointsBefore <- MCCodePointsBefore
  EINBefore <- MCEINBefore
  TextMatches <- MCTextMatches
  MaxTables = 4
  MaxGroups = 2
  NoAmount <- MCNoAmount
  GrantContext <- MCGrantContext
  NonGrantContext <- MCNonGrantContext
  FuturePayment <- MCFuturePayment
  GrantHeader <- MCGrantHeader
  AmountHeaders <- MCAmountHeaders
  NameHeaders <- MCNameHeaders
  Words <- MCWords
  Letters <- MCLetters
  TotalNames <- MCTotalNames
  PointerNames <- MCPointerNames
  RecipientLike <- MCRecipientLike
  LongNames <- MCLongNames
INVARIANTS
  ToolsAreTheMatcher
  OneFilerDecides
  JoinKeepsRecoveredGrants
  ReadsAgree
  EligibilityIsTheReads
  LineRulesLeaveLine25
  DoubledFilingsCountOnce
  VersionsAgree
  AcceptedListsAreEvidenced
  ReadListsAreTheLists
CHECK_DEADLOCK FALSE
