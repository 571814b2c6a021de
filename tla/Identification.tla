--------------------------- MODULE Identification ---------------------------
(***************************************************************************)
(* How the answers of the identifier plugins become one identity             *)
(* (server/service/identification): what agrees, what contradicts, which     *)
(* answer wins, what the others may add to it, and whether a key nobody      *)
(* stated has been corroborated.                                             *)
(*                                                                           *)
(* An identifier is [type, dom, val], dom "" when it names none.  An answer  *)
(* is [inst, ids, under, sec]: the instrument, the identifiers returned with *)
(* it, the identifiers of what it is written on, and, for the properties     *)
(* only, the security it is about.  An instrument is [class, mic, country,   *)
(* cur, cik], "" for what it leaves blank.  Letter case is left out.         *)
(***************************************************************************)
EXTENDS Orders, SequencesExt

CONSTANTS OperatingMIC, \* the operating venue of each venue of the exchange table
          MICCountry,   \* the country of each operating venue
          OccStrike     \* the strike each contract symbol carries

(* The types of the vocabulary whose values name one listing, and the rest. *)
ListingTypes == {"MIC_TICKER", "OPENFIGI_TICKER"}
SecurityTypes == {"ISIN", "CUSIP", "SEDOL", "CINS", "WERTPAPIER", "OPENFIGI_SHARE_CLASS", "OPENFIGI_COMPOSITE",
                  "OCC", "OPRA", "FUT_OPT", "CURRENCY", "FX_PAIR", "BROKER_DESCRIPTION"}
Known(type) == type \in ListingTypes \cup SecurityTypes
NamesAListing(type) == type \in ListingTypes

(* An unknown venue normalises to itself. *)
NormalizeMIC(mic) == IF mic \in DOMAIN OperatingMIC THEN OperatingMIC[mic] ELSE mic
CountryOf(mic) == IF mic \in DOMAIN MICCountry THEN MICCountry[mic] ELSE ""

(* What a candidate plugin offered, narrowed: a type outside the vocabulary  *)
(* is dropped, a ticker on an unknown venue keeps the ticker and loses the   *)
(* venue, a known venue becomes its operating one.                           *)
FilterIdentifierHints(ids) == SelectSeq(ids, LAMBDA id : Known(id.type))

ProposalFilter(ids) ==
    LET narrowed(id) ==
            IF id.type # "MIC_TICKER" \/ id.dom = "" THEN id
            ELSE [id EXCEPT !.dom = IF @ \in DOMAIN OperatingMIC THEN OperatingMIC[@] ELSE ""]
        kept == FilterIdentifierHints(ids)
    IN  [i \in DOMAIN kept |-> narrowed(kept[i])]

(* Venues.  One that named nothing permits everything; one that named a      *)
(* market permits the venues of that country and those of no known country.  *)
Permits(venue, mic) ==
    \/ venue.mic = "" /\ venue.country = ""
    \/ mic = ""
    \/ venue.mic # "" /\ venue.mic = mic
    \/ venue.mic = "" /\ CountryOf(mic) \in {"", venue.country}

Venue(inst) == [mic |-> NormalizeMIC(inst.mic), country |-> inst.country]

Agrees(v, w) ==
    /\ Permits(v, w.mic)
    /\ Permits(w, v.mic)
    /\ v.country # "" /\ w.country # "" => v.country = w.country

(* Two identifiers about the same thing, and two that cannot both hold.      *)
DomainOf(id) == IF id.type = "MIC_TICKER" THEN NormalizeMIC(id.dom) ELSE id.dom

SameSubject(a, b) == a.type = b.type /\ DomainOf(a) = DomainOf(b)

Contradicts(a, b) ==
    /\ a.type = b.type
    /\ \/ /\ NamesAListing(a.type)
          /\ a.dom # "" /\ b.dom # ""
          /\ DomainOf(a) # DomainOf(b)
       \/ SameSubject(a, b) /\ a.val # b.val

(* An answer that may be merged with the winner: nothing both of them said   *)
(* disagrees, except where the winner said both things itself.               *)
ConsistentAnyIdentifier(winner, other) ==
    /\ winner.inst.cur = "" \/ other.inst.cur = "" \/ winner.inst.cur = other.inst.cur
    /\ Agrees(Venue(winner.inst), Venue(other.inst))
ConsistentWith(winner, other) ==
    /\ winner.inst.cur = "" \/ other.inst.cur = "" \/ winner.inst.cur = other.inst.cur
    /\ Agrees(Venue(winner.inst), Venue(other.inst))
    /\ \A o \in ToSet(other.ids) :
          \/ \E w \in ToSet(winner.ids) : SameSubject(w, o) /\ w.val = o.val
          \/ \A w \in ToSet(winner.ids) : ~Contradicts(w, o)

(* What a lower answer adds to the instrument: only blanks; a venue only     *)
(* where none is named and the market permits it; a currency only where no   *)
(* venue is named or it is the answer's own.  Never the asset class.         *)
FillBlanks(dst, src) ==
    LET anywhere == [mic |-> "", country |-> dst.country]
        mic == IF dst.mic = "" /\ src.mic # "" /\ Permits(anywhere, NormalizeMIC(src.mic))
                 THEN src.mic ELSE dst.mic
        blank(a, b) == IF a = "" THEN b ELSE a
    IN  [dst EXCEPT !.mic = mic,
                    !.country = blank(@, src.country),
                    !.cur = IF mic = "" \/ NormalizeMIC(mic) = NormalizeMIC(src.mic)
                              THEN blank(@, src.cur) ELSE @,
                    !.cik = blank(@, src.cik)]

(* The identifiers stored: for each type the first value in precedence order. *)
FlattenClaims(claims) ==
    Loop(LAMBDA out, id : IF \E o \in ToSet(out) : o.type = id.type THEN out ELSE Append(out, id),
         <<>>, FlattenSeq(claims))

-----------------------------------------------------------------------------
(* Comparing an answer with what a source said.  said is [cur, class], ids   *)
(* the identifiers on the hinting side, resolved those of the answer.        *)
VenuesNamed(ids) == {NormalizeMIC(id.dom) : id \in {x \in ToSet(ids) : x.type = "MIC_TICKER" /\ x.dom # ""}}

(* A class that says something: UNKNOWN is known to be of a kind and no more. *)
Specific(class) == class \notin {"", "UNKNOWN"}

(* The first resolved identifier of the same subject is the one compared.    *)
Counterpart(id, resolved) ==
    LET same == SelectSeq(resolved, LAMBDA r : SameSubject(id, r))
    IN  IF same = <<>> THEN {} ELSE {same[1]}

CompareHints(said, ids, inst, resolved) ==
    {f \in {"Currency"} : said.cur # "" /\ inst.cur # "" /\ said.cur # inst.cur}
    \cup {f \in {"SecurityType"} : Specific(said.class) /\ Specific(inst.class) /\ said.class # inst.class}
    \cup {f \in {"Exchange"} : /\ inst.mic # ""
                               /\ VenuesNamed(ids) # {}
                               /\ NormalizeMIC(inst.mic) \notin VenuesNamed(ids)}
    \cup {id.type : id \in {x \in ToSet(ids) : \E r \in Counterpart(x, resolved) : r.val # x.val}}

(* No difference, and something was compared at all. *)
ResultMatchesHints(said, ids, a) ==
    /\ CompareHints(said, ids, a.inst, a.ids) = {}
    /\ \/ said.cur # "" /\ a.inst.cur # ""
       \/ Specific(said.class) /\ Specific(a.inst.class)
       \/ a.inst.mic # "" /\ VenuesNamed(ids) # {}
       \/ \E id \in ToSet(ids) : Counterpart(id, a.ids) # {}

(* What an answer corroborated among the things nobody guessed. *)
ConfirmedFields(said, ids, inst, resolved) ==
    {f \in {"Currency"} : said.cur # "" /\ said.cur = inst.cur}
    \cup {f \in {"SecurityType"} : Specific(said.class) /\ said.class = inst.class}
    \cup {f \in {"Exchange"} : inst.mic # "" /\ NormalizeMIC(inst.mic) \in VenuesNamed(ids)}
    \cup {id.type : id \in {x \in ToSet(ids) : \E r \in ToSet(resolved) : r.val = x.val /\ SameSubject(x, r)}}

-----------------------------------------------------------------------------
(* The key.  A source that stated nothing is asked about by the proposals;   *)
(* the database is then asked without the venues they guessed.               *)
GuessedKey(ident) == ident.stated = <<>> /\ ident.proposed # <<>>

Keyed(ident) == IF GuessedKey(ident) THEN [ident EXCEPT !.stated = ident.proposed, !.proposed = <<>>] ELSE ident

LookupIDs(ident) ==
    LET ids == Keyed(ident).stated
    IN  IF GuessedKey(ident)
          THEN [i \in DOMAIN ids |-> IF ids[i].type = "MIC_TICKER" THEN [ids[i] EXCEPT !.dom = ""] ELSE ids[i]]
          ELSE ids

(* The answers come in precedence order, [ok |-> FALSE, why] for a plugin    *)
(* that did not answer.  First an answer that matches what the source stated,*)
(* then one that matches the proposals and argues with nothing stated, then  *)
(* the first answer at all; 0 when there is none.                            *)
Successes(answers) == {i \in DOMAIN answers : answers[i].ok}
Lowest(S) == CHOOSE i \in S : \A j \in S : i <= j

MatchesStated(ident, answers) ==
    {i \in Successes(answers) :
        /\ ident.said.cur # "" \/ Specific(ident.said.class) \/ ident.stated # <<>>
        /\ ResultMatchesHints(ident.said, ident.stated, answers[i])}
MatchesProposedOnly(ident, answers) ==
    {i \in Successes(answers) :
        /\ Keyed(ident).proposed # <<>>
        /\ ResultMatchesHints([cur |-> "", class |-> ""], Keyed(ident).proposed, answers[i])}
MatchesProposed(ident, answers) ==
    {i \in Successes(answers) :
        /\ Keyed(ident).proposed # <<>>
        /\ CompareHints(ident.said, ident.stated, answers[i].inst, answers[i].ids) = {}
        /\ ResultMatchesHints([cur |-> "", class |-> ""], Keyed(ident).proposed, answers[i])}

Winner(ident, answers) ==
    LET tier == CASE MatchesStated(ident, answers) # {} -> MatchesStated(ident, answers)
                  [] MatchesStated(ident, answers) = {} /\ MatchesProposed(ident, answers) # {} ->
                        MatchesProposed(ident, answers)
                  [] OTHER -> Successes(answers)
    IN  IF tier = {} THEN 0 ELSE Lowest(tier)

(* The answers that contribute, in precedence order, and what comes of them. *)
Contributors(answers, w) ==
    SelectSeq([i \in DOMAIN answers |-> i],
              LAMBDA i : answers[i].ok /\ (i = w \/ ConsistentWith(answers[w], answers[i])))

Merged(answers, w) ==
    LET from == Contributors(answers, w)
    IN  [ids |-> FlattenClaims([k \in DOMAIN from |-> answers[from[k]].ids]),
         inst |-> Loop(LAMBDA dst, i : IF i = w THEN dst ELSE FillBlanks(dst, answers[i].inst),
                       answers[w].inst, from)]

(* The option terms ride on the contract symbol. *)
OptionFields(class, ids) ==
    LET occs == SelectSeq(ids, LAMBDA id : id.type = "OCC" /\ id.val \in DOMAIN OccStrike)
    IN  IF class = "OPTION" /\ occs # <<>> THEN OccStrike[occs[1].val] ELSE 0

(* Whether a guess is dropped: nothing the source stated was corroborated.   *)
UnconfirmedGuess(ident, inst, ids) ==
    GuessedKey(ident) /\ ConfirmedFields(ident.said, ident.stated, inst, ids) = {}

UnderlyingSecTypeHint(class) == IF class \in {"OPTION", "FUTURE"} THEN "STOCK" ELSE ""

(* A plugin is put the question unless it declares other kinds or types. *)
ShouldAttemptPlugin(plugin, said) ==
    /\ plugin.kinds = {} \/ said.kind = "" \/ said.kind \in plugin.kinds
    /\ plugin.types = {} \/ ~Specific(said.class) \/ said.class \in plugin.types

(* Whether what a source stated already picks out one listing. *)
IdentityComplete(ids) ==
    \E id \in ToSet(ids) :
       \/ id.type \in {"CURRENCY", "FX_PAIR", "OCC", "OPRA", "FUT_OPT",
                      "OPENFIGI_SHARE_CLASS", "OPENFIGI_COMPOSITE"}
       \/ NamesAListing(id.type) /\ id.dom # ""
=============================================================================
