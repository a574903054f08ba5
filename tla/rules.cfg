SPECIFICATION Writing
INVARIANTS Alignment FiguresBacked Conflicts QuotationPasses LimitsKept
CHECK_DEADLOCK FALSE
CONSTANTS
  MaxText <- MCMaxText
  Break = "|"
  Stop = "."
  Markers = {"no", "not", "behalve", "except"}
  Stopwords = {"tot", "to", "and", "or", "en", "of", "for", "no", "not", "a", "the", "may", "are", "with", "in", "you"}
  Short = {"all", "net", "use", "mag", "Bob"}
  Numerals = {"5"}
  ShortNumerals = {"5"}
  BoundPhrases <- MCBounds
  Comparatives = {}
  Than = {"than", "dan"}
  Exceeds = {"exceed", "exceeds"}
  Articles = {"a", "the"}
  Actors = {"employee", "employer"}
  Terms <- MCTerms
  Reader = "employee"
  Pronouns = {"you"}
  Inflections = {}
  Glossary <- MCGlossary
  Negatives = {}
  Restrictive = {"tot", "for", "mits", "provided", "only", "behalve", "except", "with"}
  Coordinators = {"and", "or", "en", "of"}
  Swaps <- MCSwaps
  During = {"during"}
  Universals = {"all", "every"}
  MaxSingleGap = 1
  MaxTotalGap = 2
  Slots <- MCSlots
  Shares = {}
  NonSubjects = {"to", "of", "for", "with", "in"}
  NumberWindow = 2
  ActorWindow = 2
  Absolutizers <- MCAlways
  HedgePhrases <- MCHedges
  HedgeEquivalents = {}
  Purposes = {}
  Tot = "tot"
  UpTo = {"tot", "to"}
  Amounts = {"5"}
  Degrees = {"zo", "as"}
  Copulas = {"are"}
  Complements = {"to", "for"}
  ExclusionMarkers <- MCExcept
  ExcludedPredicates <- MCExcluded
  UniversalWords = {"all", "every"}
  GroupVerbs = {"mag", "may", "are", "apply"}
  GroupPrepositions = {"of", "with", "in"}
  Joiners = {"and", "or", "en", "of"}
  Relatives = {"die", "who"}
  ForWords = {"voor", "for"}
  NegativeParticles = {"niet", "geen", "no", "not"}
  Refusals = {"no", "not", "behalve", "except"}
  UnitWords = {"week"}
  Openers = {"mits", "provided", "only", "behalve", "except"}
  Subordinating = {"mits", "provided"}
  ExclusionOpeners = {"behalve", "except"}
  OpenerPhrases = {}
  PartyRestrictors = {"with"}
  Concessives = {}
  ExceptionOpeners <- MCExceptions
  ClaimConditions = {}
  ScopeQualifiers = {"fixed"}
  Consequents <- MCThen
  VerbSubjects = {"je", "jij", "u", "de", "het"}
  Nots = {"niet", "not"}
  Then = "dan"
  Ands = {"en", "and"}
  PresenceOpeners = {"mits", "indien", "provided", "unless", "if", "when"}
  PresenceJoiners = {"en", "and"}
  PresenceWords <- MCPresenceWords
  CrossMarkers <- MCCross
  Determiners = {"a", "the"}
  Of = "of"
  Heads = {}
  Modals = {"mag", "may"}
  ReaderSubjects = {"you"}
  NounClass = {}
  Particles = {}
  Separable = {}
  DecimalComma = {"nl"}
  DecimalPoint = {"en", "de-ch", "hi"}
  Lakh = {"en", "hi"}
  Inclusions <- MCInclusions
  Antonyms <- MCAntonyms
  ScopeWords = {"adults"}
  VatMarkers = {"vat"}
  VatRates = {121, 109}
  Rank <- MCRank
  TopK = 6
  Opposites <- MCOpposites
  Relational <- MCRelational
  NumberPairs <- MCNumberPairs
  Acts <- MCActs
  Transfers <- MCTransfers
  RecipientMarkers = {"to"}
  SubtypeHeads <- MCSubtypes
  Compounds <- MCCompounds
  BareBefore = {"for", "no", "during"}
  Written = {}
  Capitals = {"Bob"}
  ConjunctOpeners = {"mits", "indien", "provided", "unless"}
  QualifierWindow = 2
  QualifierNumberWindow = 2
  AmWords = {"am"}
  PmWords = {"pm"}
  HourWords = {"uur", "u"}
  Months <- MCMonths
  DaySuffixes = {"st"}
  OrdinalSuffixes = {"st"}
  MoneySigns = {"eur"}
  MoneyWords = {"eur"}
  CentWords = {"cents"}
  Symbols = {}
  Ordinals <- MCOrdinals
  NumberWords <- MCNumberWords
  DutchUnits <- MCUnits
  DutchTeens <- MCTeens
  DutchTens <- MCTens
  Duizend = "duizend"
  Honderd = "honderd"
  LinkEn = {"en"}
  Morphemes <- MCMorphemes
  TimeUnits <- MCTimeUnits
  CompoundUnits <- MCCompoundUnits
  UnitModifiers <- MCModifiers
  QuantityLinks = {"or"}
  RangeBoundWords = {"maximum"}
  RateWords = {"per"}
  CountFunctionWords = {"per", "or"}
  EndsInE = {"three"}
  Eens = {"een", "one"}
  HalfSign = "1/2"
  HalfWords = {"half"}
  HalfYears = {"halfjaar"}
  YearWords = {"year"}
  Letters = {"x"}
  Digit = {"3"}
  Terminators = {".", "danda"}
  SpacedTerminators = {"."}
  Whites = {" ", "nl"}
  Newline = "nl"
  OpeningMarks = {"("}
  Abbreviations <- MCAbbreviations
  NumberNames = {"three"}
  Currencies = {"eur"}
  References = {"article"}
  Attributions = {}
  Particled <- MCParticled
  Aliases <- MCAliases
