------------------------------- MODULE Tables -------------------------------
(***************************************************************************)
(* The word tables of answer/ as the code has them, for the rules that     *)
(* read them.  A phrase is a sequence of words; spellings with an accent   *)
(* are left out.                                                           *)
(***************************************************************************)
EXTENDS Integers, Sequences

\* Words or phrases of one class.
Each(words, class) == {<<w, class>> : w \in words}

-----------------------------------------------------------------------------
(* What flips, restricts or bounds a statement *)

POLARITY_MARKERS ==
    {"behalve", "geen", "niemand", "niet", "niets", "noch", "nooit", "tenzij", "uitgezonderd",
     "verboden", "zonder", "absent", "cannot", "denied", "except", "excluding", "failed",
     "fails", "forbidden", "neither", "never", "no", "nobody", "none", "nor", "not", "nothing",
     "other", "prohibited", "unless", "without"}

SCOPE_RESTRICTORS ==
    {"except", "excluding", "other", "unless", "behalve", "tenzij", "uitgezonderd", "zonder"}

NEGATION_EXTRAS ==
    {"excluded", "fail", "lack", "lacks", "unable"}

CONFLICT_NEGATIONS ==
    {"absent", "cannot", "denied", "excluded", "fail", "failed", "fails", "forbidden", "geen",
     "lack", "lacks", "neither", "never", "niemand", "niet", "niets", "no", "nobody", "noch",
     "none", "nooit", "nor", "not", "nothing", "prohibited", "unable", "verboden", "without"}

\* Each pair in one direction.
CONFLICT_ANTONYMS ==
    {<<"above", "below">>, <<"accelerates", "decelerates">>, <<"afgewezen", "goedgekeurd">>,
     <<"after", "before">>, <<"allowed", "forbidden">>, <<"approved", "rejected">>,
     <<"attracts", "repels">>, <<"below", "exceeds">>, <<"closed", "open">>,
     <<"contracts", "expands">>, <<"decrease", "increase">>, <<"decreased", "increased">>,
     <<"decreases", "increases">>, <<"deficit", "surplus">>, <<"denied", "granted">>,
     <<"disabled", "enabled">>, <<"eligible", "ineligible">>, <<"failed", "passed">>,
     <<"falls", "rises">>, <<"fell", "rose">>, <<"gain", "loss">>, <<"greater", "less">>,
     <<"greater", "lower">>, <<"higher", "lower">>, <<"invalid", "valid">>, <<"less", "more">>,
     <<"loss", "profit">>, <<"mandatory", "optional">>, <<"optional", "required">>,
     <<"optioneel", "verplicht">>, <<"overturned", "upheld">>, <<"permitted", "prohibited">>}

CONFLICT_SCOPE_MARKERS ==
    {"adult", "adults", "annual", "child", "children", "commercial", "daily", "domestic",
     "elderly", "gross", "hourly", "inbound", "infants", "international", "monthly", "neonates",
     "net", "offpeak", "offshore", "onshore", "outbound", "paediatric", "peak", "pediatric",
     "quarterly", "residential", "weekly"}

CONFLICT_INCLUSION_PAIRS ==
    {<<"incl", "excl">>, <<"including", "excluding">>, <<"inclusief", "exclusief">>,
     <<"inclusive", "exclusive">>}

NEGATIVE_WORDS ==
    {"unused", "unpaid", "untaken", "unclaimed", "unspent", "ongebruikt", "ongebruikte",
     "onbetaald", "onbetaalde", "onopgenomen"}

RESTRICTIVE_TAIL ==
    {"met", "van", "voor", "tot", "boven", "onder", "bij", "aan", "zonder", "behalve",
     "uitgezonderd", "alleen", "uitsluitend", "mits", "tenzij", "indien", "als", "wanneer",
     "die", "dat", "waarvan", "with", "for", "above", "below", "over", "provided", "unless",
     "if", "when", "who", "that", "which", "without", "except", "only"}

COORDINATORS ==
    {"en", "maar", "of", "want", "dus", "and", "but", "or", "so"}

\* A phrase and the side it bounds.
BOUND_PHRASES ==
    Each({<<"no", "later", "than">>, <<"not", "later", "than">>, <<"no", "more", "than">>,
          <<"not", "more", "than">>, <<"at", "most">>, <<"up", "to">>,
          <<"niet", "later", "dan">>, <<"niet", "meer", "dan">>, <<"uiterlijk">>, <<"maximaal">>,
          <<"hooguit">>, <<"ten", "hoogste">>, <<"maximum">>}, "upper")
      \cup Each({<<"no", "earlier", "than">>, <<"not", "earlier", "than">>, <<"no", "less", "than">>,
          <<"not", "less", "than">>, <<"no", "fewer", "than">>, <<"at", "least">>,
          <<"niet", "eerder", "dan">>, <<"niet", "minder", "dan">>, <<"minimaal">>,
          <<"ten", "minste">>, <<"tenminste">>, <<"minimum">>}, "lower")

\* A comparative and the side it bounds when negated.
SPLIT_COMPARATIVES ==
    Each({"meer", "more", "hoger", "higher", "langer", "longer", "later", "groter", "larger",
          "bigger", "zwaarder", "heavier"}, "upper")
      \cup Each({"minder", "less", "fewer", "lager", "lower", "korter", "shorter", "eerder", "earlier",
          "kleiner", "smaller"}, "lower")

EXCEED_VERBS ==
    {"exceed", "exceeds", "overschrijden", "overschrijdt"}

\* A word of the claim and what the passage says instead.
POLARITY_SWAPS ==
    {<<"een", "geen">>, <<"geen", "een">>, <<"wel", "niet">>, <<"niet", "wel">>,
     <<"altijd", "nooit">>, <<"nooit", "altijd">>, <<"always", "never">>, <<"never", "always">>,
     <<"a", "no">>, <<"an", "no">>, <<"no", "a">>, <<"no", "an">>, <<"toegestaan", "verboden">>,
     <<"verboden", "toegestaan">>, <<"allowed", "forbidden">>, <<"allowed", "prohibited">>,
     <<"forbidden", "allowed">>, <<"prohibited", "allowed">>, <<"permitted", "prohibited">>,
     <<"verplicht", "optioneel">>, <<"optioneel", "verplicht">>, <<"required", "optional">>,
     <<"optional", "required">>}

DURING_WORDS ==
    {"during", "throughout", "tijdens", "gedurende"}

UNIVERSALS ==
    {"any", "all", "every", "each", "alle", "elk", "elke", "ieder", "iedere"}

-----------------------------------------------------------------------------
(* Function words *)

STOPWORDS ==
    {"a", "an", "and", "are", "as", "at", "be", "by", "can", "could", "do", "does", "for",
     "from", "how", "i", "in", "is", "it", "its", "may", "much", "no", "not", "of", "on", "or",
     "shall", "should", "that", "the", "this", "to", "was", "what", "when", "where", "which",
     "who", "why", "will", "with", "you", "your"}

CONTEXT_STOP ==
    {"de", "het", "een", "en", "van", "in", "op", "te", "dat", "die", "is", "zijn", "voor",
     "met", "aan", "bij", "of", "als", "ook", "om", "naar", "door", "over", "tot", "uit", "je",
     "jouw", "uw", "wordt", "worden"}

ARTICLES ==
    {"de", "het", "een", "the", "a", "an"}

PARTY_DETERMINERS ==
    {"de", "het", "een", "the", "a", "an", "zijn", "haar", "hun", "his", "her", "their"}

MODAL_WORDS ==
    {"must", "may", "can", "will", "shall", "should", "moet", "mag", "kan", "zal", "dient"}

SEPARABLE_PARTICLES ==
    {"af", "aan", "op", "in", "uit", "mee", "door", "over", "terug", "vast", "toe", "voor",
     "bij", "na"}

READER_SUBJECTS ==
    {"you", "je", "jij", "u"}

-----------------------------------------------------------------------------
(* Hedges, exclusions and conditions *)

ABSOLUTIZERS ==
    {<<"altijd">>, <<"always">>, <<"steeds">>, <<"te", "allen", "tijde">>,
     <<"at", "all", "times">>, <<"voortdurend">>, <<"at", "any", "time">>,
     <<"op", "elk", "moment">>, <<"whenever">>, <<"wanneer", "ze", "maar", "willen">>,
     <<"without", "restriction">>, <<"zonder", "beperking">>, <<"for", "any", "reason">>,
     <<"om", "welke", "reden", "dan", "ook">>, <<"ongeacht">>, <<"regardless">>,
     <<"in", "alle", "gevallen">>, <<"in", "all", "cases">>,
     <<"for", "as", "long", "as", "needed">>, <<"zo", "lang", "als", "nodig">>, <<"at", "all">>,
     <<"onbeperkt">>, <<"unlimited">>}

HEDGE_PHRASES ==
    Each({<<"mag">>, <<"mogen">>, <<"kan">>, <<"kunnen">>, <<"kun">>, <<"kunt">>, <<"may">>,
          <<"can">>, <<"might">>}, "permission")
      \cup Each({<<"maximaal">>, <<"ten", "hoogste">>, <<"hooguit">>, <<"tot", "een", "maximum">>,
          <<"maximum">>, <<"up", "to">>, <<"at", "most">>, <<"no", "more", "than">>, <<"capped">>}, "upper")
      \cup Each({<<"in", "beginsel">>, <<"in", "principe">>, <<"in", "de", "regel">>,
          <<"zoveel", "mogelijk">>, <<"in", "principle">>, <<"as", "a", "rule">>,
          <<"as", "far", "as", "possible">>, <<"as", "much", "as", "possible">>}, "softener")

\* Hedge a claim, not a unit.
HEDGE_EQUIVALENTS ==
    Each({<<"normaal", "gesproken">>, <<"normaliter">>, <<"gewoonlijk">>, <<"doorgaans">>,
          <<"meestal">>, <<"in", "het", "algemeen">>, <<"over", "het", "algemeen">>,
          <<"als", "regel">>, <<"in", "de", "meeste", "gevallen">>, <<"in", "beginsel">>,
          <<"normally">>, <<"usually">>, <<"generally">>, <<"in", "general">>, <<"typically">>,
          <<"ordinarily">>, <<"in", "most", "cases">>, <<"as", "a", "general", "rule">>}, "softener")
      \cup Each({<<"toegestaan">>, <<"mogelijk">>, <<"mogelijkheid">>, <<"allowed">>, <<"permitted">>,
          <<"possible">>, <<"option">>, <<"optional">>}, "permission")

PERMISSION_COPULAS ==
    {"is", "are", "be", "was", "were", "been", "zijn", "wordt", "worden", "has", "have", "had",
     "heeft", "hebben", "biedt", "bieden"}

PERMISSION_COMPLEMENTS ==
    {"to", "that", "for", "om", "dat", "te"}

EXCLUSION_MARKERS ==
    {<<"behalve">>, <<"uitgezonderd">>, <<"met", "uitzondering", "van">>, <<"niet", "voor">>,
     <<"niet", "van", "toepassing", "op">>, <<"except">>, <<"excluding">>, <<"other", "than">>,
     <<"with", "the", "exception", "of">>, <<"not", "applicable", "to">>, <<"not", "for">>}

EXCLUDED_PREDICATES ==
    {<<"zijn", "uitgesloten">>, <<"is", "uitgesloten">>, <<"hebben", "geen", "recht">>,
     <<"heeft", "geen", "recht">>, <<"komen", "niet", "in", "aanmerking">>,
     <<"komt", "niet", "in", "aanmerking">>, <<"are", "excluded">>, <<"is", "excluded">>,
     <<"are", "not", "entitled">>, <<"is", "not", "entitled">>, <<"are", "not", "eligible">>,
     <<"is", "not", "eligible">>, <<"are", "not", "enrolled">>, <<"is", "not", "enrolled">>}

UNIVERSAL_WORDS ==
    {"alle", "iedereen", "iedere", "elke", "ieder", "all", "every", "everyone", "everybody"}

GROUP_VERBS ==
    {"geldt", "gelden", "is", "zijn", "heeft", "hebben", "komt", "komen", "krijgt", "krijgen",
     "ontvangt", "ontvangen", "kan", "kunnen", "mag", "mogen", "applies", "apply", "are", "has",
     "have", "can", "may", "receive", "receives"}

GROUP_PREPOSITIONS ==
    {"in", "met", "van", "vanaf", "op", "bij", "with", "from", "of", "on", "at"}

BOUND_OR_NEGATION ==
    {"niet", "not", "geen", "no", "never", "nooit", "without", "zonder", "behalve", "except",
     "excluding"}

CONDITION_OPENERS ==
    {"mits", "indien", "tenzij", "voorwaarde", "alleen", "uitsluitend", "enkel", "slechts",
     "eerst", "pas", "zolang", "behalve", "uitgezonderd", "provided", "unless", "only", "solely",
     "first", "except", "once"}

CONDITION_PHRASES ==
    {<<"ten", "minste">>, <<"met", "toestemming">>, <<"at", "least">>, <<"with", "permission">>}

SUBORDINATING_OPENERS ==
    {"mits", "indien", "tenzij", "zolang", "voorwaarde", "provided", "unless", "once"}

CONCESSIVES ==
    {<<"even", "if">>, <<"even", "when">>, <<"even", "though">>,
     <<"regardless", "of", "whether">>, <<"zelfs", "als">>, <<"zelfs", "wanneer">>,
     <<"zelfs", "indien">>, <<"ook", "als">>, <<"ook", "wanneer">>, <<"ongeacht", "of">>}

EXCEPTION_OPENERS ==
    {<<"tenzij">>, <<"mits">>, <<"indien">>, <<"behalve">>, <<"uitgezonderd">>,
     <<"alleen", "als">>, <<"alleen", "wanneer">>, <<"unless">>, <<"provided">>, <<"except">>,
     <<"only", "if">>, <<"only", "when">>}

CLAIM_CONDITION_MARKERS ==
    {"als", "wanneer", "zodra", "indien", "die", "wie", "if", "when", "who", "whoever"}

PARTY_RESTRICTORS ==
    {"met", "die", "with", "who"}

SCOPE_QUALIFIERS ==
    {"onbetaald", "onbetaalde", "betaald", "betaalde", "aanvullend", "aanvullende", "bijzonder",
     "bijzondere", "vast", "vaste", "tijdelijk", "tijdelijke", "variabel", "variabele", "gewoon",
     "gewone", "unpaid", "paid", "additional", "special", "fixed", "variable", "regular",
     "temporary", "permanent"}

EXCLUSION_OPENERS ==
    {"behalve", "uitgezonderd", "except"}

CROSS_CONDITION_MARKERS ==
    {<<"if">>, <<"when">>, <<"whenever">>, <<"once">>, <<"provided">>, <<"unless">>,
     <<"as", "long", "as">>, <<"who">>, <<"whose">>, <<"which">>, <<"that">>, <<"with">>,
     <<"without">>, <<"after">>, <<"before">>, <<"on">>, <<"only">>, <<"except">>,
     <<"subject", "to">>, <<"where">>, <<"in", "case">>, <<"als">>, <<"wanneer">>, <<"indien">>,
     <<"mits">>, <<"zodra">>, <<"zolang">>, <<"tenzij">>, <<"die">>, <<"dat">>, <<"met">>,
     <<"zonder">>, <<"na">>, <<"op">>, <<"alleen">>, <<"behalve">>, <<"bij">>}

PRESENCE_FUNCTION_WORDS ==
    {"they", "them", "their", "have", "been", "would", "could", "should", "hebben", "heeft",
     "zich", "deze", "werd", "werden", "zullen", "zouden"}

-----------------------------------------------------------------------------
(* Actors and what they do *)

DEFAULT_ACTOR_LEXICON ==
    [actors |->
        [employee |-> {"werknemer", "werknemers", "medewerker", "medewerkers", "employee",
                       "employees"},
         employer |-> {"werkgever", "werkgevers", "employer", "employers"},
         intern |-> {"stagiair", "stagiairs", "stagiaire", "stagiaires", "intern", "interns"},
         agency |-> {"uitzendkracht", "uitzendkrachten", "agency"},
         contractor |-> {"inhuur", "freelancer", "freelancers", "zzp'er", "zzp'ers",
                         "contractor", "contractors"},
         manager |-> {"leidinggevende", "leidinggevenden", "manager", "managers"}],
     second_person |-> "employee",
     second_person_terms |-> {"je", "jij", "jou", "jouw", "u", "uw", "you", "your", "yours"},
     share_tails |-> {"bijdrage", "bijdragen", "deel", "aandeel", "premie"},
     slots |->
        Each({"betaalt", "betaal", "betalen", "betaald", "draagt", "dragen", "vergoedt",
                 "vergoed", "vergoeden", "bijdrage", "bijdragen", "stort", "verstrekt", "biedt",
                 "geeft", "pays", "pay", "paid", "contributes", "contribute", "contribution",
                 "reimburses", "reimburse", "provides", "share", "offers", "bears"}, "source")
          \cup Each({"ontvangt", "ontvang", "ontvangen", "krijgt", "krijg", "krijgen", "recht",
                 "receives", "receive", "gets", "get", "entitled", "earns"}, "recipient")
          \cup Each({"moet", "moeten", "verplicht", "must"}, "duty")
          \cup Each({"mag", "mogen", "may"}, "permission")]

NON_SUBJECT ==
    {"van", "voor", "aan", "bij", "met", "namens", "binnen", "in", "onder", "from", "for", "to",
     "with", "of", "on", "within", "at", "among"}

RELATION_VERBS ==
    Each({"deelt", "delen", "meedelen", "mededelen", "informeert", "informeren", "informeer",
          "meldt", "melden", "inform", "informs", "informed", "notify", "notifies", "notified",
          "tell", "tells", "told"}, "inform")
      \cup Each({"betaalt", "betalen", "uitkeren", "keert", "pay", "pays", "paid"}, "pay")
      \cup Each({"verstrekt", "verstrekken", "overhandigt", "overhandigen", "provide", "provides",
          "provided", "give", "gives", "gave"}, "give")

RECIPIENT_MARKERS ==
    {"aan", "bij", "to"}

\* Applying for something and taking it; a form of two words is a separable verb.
DEFAULT_VERB_PAIRS ==
    {<<{<<"aanvragen">>, <<"aanvraagt">>, <<"aangevraagd">>, <<"aanvraag">>, <<"application">>,
       <<"vraagt", "aan">>, <<"vraag", "aan">>, <<"vragen", "aan">>, <<"apply">>, <<"applies">>,
       <<"applied">>, <<"request">>, <<"requests">>, <<"requested">>},
      {<<"opnemen">>, <<"opneemt">>, <<"opgenomen">>, <<"opname">>, <<"opnames">>,
       <<"neemt", "op">>, <<"neem", "op">>, <<"nemen", "op">>, <<"take">>, <<"takes">>,
       <<"taken">>, <<"took">>, <<"use">>, <<"uses">>, <<"used">>}>>}

DEFAULT_QUALIFIER_PAIRS ==
    {<<{"bruto", "gross"}, {"netto", "net"}>>,
     <<{"vast", "vaste", "permanent", "indefinite"}, {"tijdelijk", "tijdelijke", "temporary"}>>,
     <<{"voltijd", "voltijds", "fulltime", "full-time"}, {"deeltijd", "deeltijds", "parttime", "part-time"}>>}

QUALIFIER_PAIRS ==
    {<<{"bruto", "gross"}, {"netto", "net"}>>,
     <<{"werkgever", "employer"}, {"werknemer", "employee"}>>,
     <<{"voordat", "before"}, {"na", "nadat", "after"}>>,
     <<{"eerder", "earlier"}, {"later", "later"}>>,
     <<{"minimaal", "minimum"}, {"maximaal", "maximum"}>>,
     <<{"schriftelijk", "schriftelijke", "written", "writing"}, {"mondeling", "mondelinge", "oral", "orally", "verbally"}>>}

DEFAULT_SUBTYPE_HEADS ==
    {{"verlof", "leave"},
     {"toelage", "toelagen", "allowance", "allowances"},
     {"vergoeding", "vergoedingen", "reimbursement", "reimbursements"},
     {"uitkering", "uitkeringen", "benefit", "benefits"}}

-----------------------------------------------------------------------------
(* Lines of an answer *)

ABBREVIATIONS ==
    {"bijv", "blz", "c.q", "ca", "d.w.z", "evt", "excl", "i.v.m", "incl", "m.b.t", "m.u.v",
     "o.a", "t.a.v", "t.o.v", "e.g", "i.e", "abs", "al", "art", "bv", "bzw", "cf", "dhr", "dr",
     "eg", "etc", "fig", "ggf", "ie", "jr", "mevr", "mr", "mrs", "ms", "no", "nr", "para",
     "prof", "resp", "sec", "sr", "st", "usw", "vgl", "vs", "zb", "ziff"}

DEFAULT_LEAD_IN_FRAMES ==
    {<<"zo", "zit", "het">>, <<"zo", "werkt", "het">>, <<"het", "volgende">>, <<"als", "volgt">>,
     <<"hieronder">>, <<"samengevat">>, <<"kort", "samengevat">>, <<"in", "het", "kort">>,
     <<"een", "overzicht">>, <<"here", "s", "how">>, <<"here", "is", "how">>,
     <<"here", "s", "what">>, <<"here", "is", "what">>, <<"as", "follows">>,
     <<"the", "following">>, <<"below">>, <<"in", "short">>, <<"in", "summary">>,
     <<"an", "overview">>, <<"volg", "deze", "stappen">>, <<"volg", "de", "stappen">>,
     <<"volg", "de", "volgende", "stappen">>, <<"de", "volgende", "stappen">>,
     <<"deze", "stappen">>, <<"de", "stappen">>, <<"stappen">>,
     <<"hier", "zijn", "de", "stappen">>, <<"hier", "zijn", "de", "exacte", "stappen">>,
     <<"here", "are", "the", "steps">>, <<"here", "are", "the", "exact", "steps">>,
     <<"follow", "these", "steps">>, <<"follow", "the", "steps">>, <<"these", "steps">>,
     <<"the", "steps">>, <<"steps">>}

LIST_EXCLUSIVES ==
    {"alleen", "uitsluitend", "enkel", "slechts", "only", "solely", "exclusively"}

LIST_REFERENCE_NOUNS ==
    {"artikel", "art", "lid", "hoofdstuk", "paragraaf", "bijlage", "article", "section",
     "chapter", "paragraph", "annex", "clause"}

LEAD_IN_ATTRIBUTION ==
    {"volgens", "krachtens", "ingevolge", "conform", "onder", "geldt", "gelden", "bepaalt",
     "according", "pursuant", "under", "applies", "apply", "provides", "states"}

CURRENCY_CODES ==
    {"eur", "usd", "gbp"}

-----------------------------------------------------------------------------
(* Numbers, units and how languages write them *)

NUMBER_WORDS ==
    {<<"zero", 0>>, <<"one", 1>>, <<"two", 2>>, <<"three", 3>>, <<"four", 4>>, <<"five", 5>>,
     <<"six", 6>>, <<"seven", 7>>, <<"eight", 8>>, <<"nine", 9>>, <<"ten", 10>>,
     <<"eleven", 11>>, <<"twelve", 12>>, <<"thirteen", 13>>, <<"fourteen", 14>>,
     <<"fifteen", 15>>, <<"sixteen", 16>>, <<"seventeen", 17>>, <<"eighteen", 18>>,
     <<"nineteen", 19>>, <<"twenty", 20>>, <<"thirty", 30>>, <<"forty", 40>>, <<"fifty", 50>>,
     <<"sixty", 60>>, <<"nul", 0>>, <<"een", 1>>, <<"twee", 2>>, <<"drie", 3>>, <<"vier", 4>>,
     <<"vijf", 5>>, <<"zes", 6>>, <<"zeven", 7>>, <<"acht", 8>>, <<"negen", 9>>, <<"tien", 10>>,
     <<"elf", 11>>, <<"twaalf", 12>>, <<"dertien", 13>>, <<"veertien", 14>>, <<"vijftien", 15>>,
     <<"zestien", 16>>, <<"zeventien", 17>>, <<"achttien", 18>>, <<"negentien", 19>>,
     <<"twintig", 20>>, <<"dertig", 30>>, <<"veertig", 40>>, <<"vijftig", 50>>, <<"zestig", 60>>}

DUTCH_UNITS ==
    {<<"een", 1>>, <<"twee", 2>>, <<"drie", 3>>, <<"vier", 4>>, <<"vijf", 5>>, <<"zes", 6>>,
     <<"zeven", 7>>, <<"acht", 8>>, <<"negen", 9>>}

DUTCH_TEENS ==
    {<<"tien", 10>>, <<"elf", 11>>, <<"twaalf", 12>>, <<"dertien", 13>>, <<"veertien", 14>>,
     <<"vijftien", 15>>, <<"zestien", 16>>, <<"zeventien", 17>>, <<"achttien", 18>>,
     <<"negentien", 19>>}

DUTCH_TENS ==
    {<<"twintig", 20>>, <<"dertig", 30>>, <<"veertig", 40>>, <<"vijftig", 50>>, <<"zestig", 60>>,
     <<"zeventig", 70>>, <<"tachtig", 80>>, <<"negentig", 90>>}

ORDINAL_WORDS ==
    {<<"eerste", 1>>, <<"tweede", 2>>, <<"derde", 3>>, <<"vierde", 4>>, <<"vijfde", 5>>,
     <<"zesde", 6>>, <<"zevende", 7>>, <<"achtste", 8>>, <<"negende", 9>>, <<"tiende", 10>>,
     <<"elfde", 11>>, <<"twaalfde", 12>>, <<"first", 1>>, <<"second", 2>>, <<"third", 3>>,
     <<"fourth", 4>>, <<"fifth", 5>>, <<"sixth", 6>>, <<"seventh", 7>>, <<"eighth", 8>>,
     <<"ninth", 9>>, <<"tenth", 10>>, <<"eleventh", 11>>, <<"twelfth", 12>>}

MONTH_NUMBER ==
    {<<"januari", 1>>, <<"februari", 2>>, <<"maart", 3>>, <<"april", 4>>, <<"mei", 5>>,
     <<"juni", 6>>, <<"juli", 7>>, <<"augustus", 8>>, <<"september", 9>>, <<"oktober", 10>>,
     <<"november", 11>>, <<"december", 12>>, <<"january", 1>>, <<"february", 2>>, <<"march", 3>>,
     <<"may", 5>>, <<"june", 6>>, <<"july", 7>>, <<"august", 8>>, <<"october", 10>>}

TIME_UNITS ==
    Each({"day", "days", "dag", "dagen", "kalenderdag", "kalenderdagen", "daags", "daagse"}, "day")
      \cup Each({"werkdag", "werkdagen"}, "workday")
      \cup Each({"week", "weeks", "weken", "wk", "wkn"}, "week")
      \cup Each({"month", "months", "maand", "maanden", "mnd"}, "month")
      \cup Each({"year", "years", "jaar", "jaren", "jr", "yr", "yrs", "jarig", "jarige"}, "year")
      \cup Each({"hour", "hours", "uur", "uren", "hr", "hrs", "urig", "urige"}, "hour")
      \cup Each({"minute", "minutes", "minuut", "minuten", "min"}, "minute")

\* In the order they are tried.
UNIT_SUFFIXES ==
    << <<"werkdagen", "workday">>, <<"werkdag", "workday">>, <<"maanden", "month">>,
     <<"dagen", "day">>, <<"weken", "week">>, <<"jaren", "year">>, <<"maand", "month">>,
     <<"jaar", "year">>, <<"uren", "hour">>, <<"dag", "day">>, <<"uur", "hour">> >>

COUNT_FUNCTION_WORDS ==
    {"voor", "na", "van", "op", "in", "of", "en", "per", "uit", "bij", "tot", "met", "aan",
     "keer", "for", "the", "and", "or", "to", "times", "at", "by"}

DECIMAL_COMMA_LANGUAGES ==
    {"bg", "cs", "da", "de", "el", "en-za", "es", "fi", "fr", "hr", "hu", "id", "it", "nb", "nl",
     "nn", "no", "pl", "pt", "ro", "ru", "sk", "sl", "sv", "tr", "uk", "vi"}

DECIMAL_POINT_LANGUAGES ==
    {"bn", "de-ch", "de-li", "en", "es-419", "es-mx", "es-us", "gu", "he", "hi", "it-ch", "ja",
     "kn", "ko", "ml", "mr", "ms", "ta", "te", "th", "zh"}

LAKH_GROUPING_LANGUAGES ==
    {"bn", "en", "gu", "hi", "kn", "ml", "mr", "ta", "te"}

-----------------------------------------------------------------------------
(* Properties: tables that must agree, and nothing else keeps in step *)

Firsts(pairs) == {p[1] : p \in pairs}

\* A table of pairs gives no word two classes.
IsFunction(pairs) == \A p, q \in pairs : p[1] = q[1] => p = q

\* tables.py: what flips a claim and what sets two passages apart "can never drift
\* apart"; and no antonym is a scope distinction "wearing an antonym's clothes".
NegationsAgree ==
    /\ CONFLICT_NEGATIONS = (POLARITY_MARKERS \ SCOPE_RESTRICTORS) \cup NEGATION_EXTRAS
    /\ \A p \in CONFLICT_ANTONYMS :
          /\ p[1] # p[2] /\ {p[1], p[2]} \cap CONFLICT_SCOPE_MARKERS = {}
          /\ p \notin CONFLICT_INCLUSION_PAIRS /\ <<p[2], p[1]>> \notin CONFLICT_ANTONYMS

\* "No later than" bounds the side that "later" bounds when it is negated, and a bound
\* that a claim may not drop is no lower one.
BoundsAgree ==
    /\ IsFunction(BOUND_PHRASES) /\ IsFunction(SPLIT_COMPARATIVES) /\ IsFunction(HEDGE_PHRASES)
    /\ \A b \in BOUND_PHRASES :
          /\ \A c \in SPLIT_COMPARATIVES : Len(b[1]) = 3 /\ b[1][2] = c[1] => b[2] = c[2]
          /\ \A h \in HEDGE_PHRASES : h[1] = b[1] => h[2] = "upper" /\ b[2] = "upper"

\* What opens a clause, an exception or a concession, opens a condition.
OpenersAgree ==
    /\ SUBORDINATING_OPENERS \cup EXCLUSION_OPENERS \subseteq CONDITION_OPENERS
    /\ \A p \in EXCEPTION_OPENERS : p[1] \in CONDITION_OPENERS
    /\ {p \in EXCLUSION_MARKERS : Len(p) = 1 /\ p[1] \in CONDITION_OPENERS} \subseteq {<<w>> : w \in EXCLUSION_OPENERS}
    /\ {p[1] : p \in {q \in HEDGE_PHRASES : Len(q[1]) = 1}} \cap ABSOLUTIZERS = {}

\* The sides of a pair share no word, nor do two actors; the opposite of an actor is
\* another actor.
SidesApart ==
    LET actors == DEFAULT_ACTOR_LEXICON.actors
    IN  /\ \A p \in QUALIFIER_PAIRS \cup DEFAULT_QUALIFIER_PAIRS \cup DEFAULT_VERB_PAIRS : p[1] \cap p[2] = {}
        /\ \A a, b \in DOMAIN actors : a # b => actors[a] \cap actors[b] = {}
        /\ DEFAULT_ACTOR_LEXICON.second_person \in DOMAIN actors
        /\ IsFunction(DEFAULT_ACTOR_LEXICON.slots) /\ IsFunction(RELATION_VERBS)
        /\ \A p \in QUALIFIER_PAIRS : \A a \in DOMAIN actors :
              p[1] \cap actors[a] # {} => p[1] \subseteq actors[a] /\ \E b \in DOMAIN actors \ {a} : p[2] \subseteq actors[b]

\* A number word means what its parts mean, a compound's unit what its last word means,
\* and no language reads a mark two ways.
FiguresAgree ==
    /\ DUTCH_UNITS \cup DUTCH_TEENS \subseteq NUMBER_WORDS
    /\ \A t \in DUTCH_TENS : t[1] \in Firsts(NUMBER_WORDS) => t \in NUMBER_WORDS
    /\ IsFunction(NUMBER_WORDS) /\ IsFunction(ORDINAL_WORDS) /\ IsFunction(MONTH_NUMBER) /\ IsFunction(TIME_UNITS)
    /\ Firsts(NUMBER_WORDS) \cap (Firsts(ORDINAL_WORDS) \cup Firsts(TIME_UNITS) \cup COUNT_FUNCTION_WORDS) = {}
    /\ \A i \in DOMAIN UNIT_SUFFIXES : UNIT_SUFFIXES[i][1] \in Firsts(TIME_UNITS) => UNIT_SUFFIXES[i] \in TIME_UNITS
    /\ DECIMAL_COMMA_LANGUAGES \cap DECIMAL_POINT_LANGUAGES = {}
    /\ LAKH_GROUPING_LANGUAGES \subseteq DECIMAL_POINT_LANGUAGES
=============================================================================
