---------------------------- MODULE CookieSplitter ----------------------------
(***************************************************************************)
(* server/session/cookie_splitter.ts: a token too long for one cookie is    *)
(* compressed, cut into pieces, and kept in numbered cookies next to the    *)
(* session cookie.  A request works on the pieces it arrived with (hapi's    *)
(* state) and on those it sets itself (_states), which replace the browser's *)
(* when its answer arrives.                                                 *)
(*                                                                         *)
(* A compressed value is a sequence of distinct characters; inflating a      *)
(* joined value gives the one it begins with, whole, or fails.              *)
(***************************************************************************)
EXTENDS Naturals, SequencesExt

CONSTANTS
    Values,               \* the compressed values
    additionalCookies,    \* extra_storage.additional_cookies
    maxLengthPerCookie,   \* MAX_LENGTH_OF_COOKIE_BYTES / ESTIMATED_IRON_COOKIE_OVERHEAD
    Requests              \* requests that can be under way at the same time

Pieces == 1..additionalCookies
Values0 == Values \cup {<<>>}

ASSUME SplitterAssumption ==
    /\ additionalCookies \in Nat \ {0}
    /\ maxLengthPerCookie \in Nat \ {0}
    /\ <<>> \notin Values
    /\ \A v \in Values : v \in Seq(Range(v))
    /\ \A v, w \in Values : v[1] = w[1] => v = w

VARIABLES
    browserPieces, \* the pieces in the browser, <<>> for none
    active,        \* the requests under way
    state,         \* the pieces a request arrived with
    newer,         \* _states: the pieces it has set or unset
    lastLeft,      \* history: what the last undisturbed request left
    undisturbed,   \* history: the request that has met no other, if any
    ownSet         \* history: what the request itself stored last
splitterVars == <<browserPieces, active, state, newer, lastLeft, undisturbed, ownSet>>

Untouched == [touched |-> FALSE, value |-> <<>>]
Piece(value) == [touched |-> TRUE, value |-> value]
Nothing == [did |-> "nothing", value |-> <<>>]
Left(value) == [did |-> "left", value |-> value]    \* <<>> when it was cleared
Mixed == [did |-> "mixed", value |-> <<>>]          \* cleared after being stored

SplitterInit ==
    /\ browserPieces = [i \in Pieces |-> <<>>]
    /\ active = {}
    /\ state = [r \in Requests |-> [i \in Pieces |-> <<>>]]
    /\ newer = [r \in Requests |-> [i \in Pieces |-> Untouched]]
    /\ lastLeft = Left(<<>>)
    /\ undisturbed = {}
    /\ ownSet = [r \in Requests |-> Nothing]

-----------------------------------------------------------------------------
Ceil(a, b) == (a + b - 1) \div b

(* More characters than fit: spread them evenly, and hope. *)
splitValueAt(value) ==
    IF Len(value) > additionalCookies * maxLengthPerCookie
    THEN Ceil(Len(value), additionalCookies)
    ELSE maxLengthPerCookie

(* String.prototype.substring: clipped at the end. *)
Substring(value, from, to) ==
    SubSeq(value, from + 1, IF to < Len(value) THEN to ELSE Len(value))

(* Fault: pieces the new value has no use for are left as they are. *)
splitValueIntoCookies_KeepsTail(value) ==
    [i \in Pieces |->
        LET piece == Substring(value, (i - 1) * splitValueAt(value), i * splitValueAt(value))
        IN  IF piece = <<>> THEN Untouched ELSE Piece(piece)]

(* Every piece is set, or unset when the value is too short to reach it. *)
splitValueIntoCookies(value) ==
    [i \in Pieces |->
        Piece(Substring(value, (i - 1) * splitValueAt(value), i * splitValueAt(value)))]

(* Fault: each piece is looked for among those the request came with first. *)
unsplitCookiesIntoValue_Mixed(r) ==
    FlattenSeq([i \in Pieces |-> IF state[r][i] # <<>> THEN state[r][i] ELSE newer[r][i].value])

(* Either all pieces are those the request has set, or none is. *)
unsplitCookiesIntoValue(r) ==
    LET requestHasNewerCookieState == newer[r][1].touched
    IN  FlattenSeq([i \in Pieces |-> IF requestHasNewerCookieState THEN newer[r][i].value
                                                                  ELSE state[r][i]])

(* inflateValue: what follows the end of a compressed value is ignored. *)
Inflates(joined, value) == Len(joined) >= Len(value) /\ SubSeq(joined, 1, Len(value)) = value

getExtraAuthStorageValue(r) ==
    {v \in Values : Inflates(unsplitCookiesIntoValue(r), v)}

-----------------------------------------------------------------------------
SendPieces(r) ==
    /\ r \notin active
    /\ active' = active \cup {r}
    /\ state' = [state EXCEPT ![r] = browserPieces]
    /\ undisturbed' = IF active = {} THEN {r} ELSE {}
    /\ UNCHANGED <<browserPieces, newer, lastLeft, ownSet>>

setExtraAuthStorage(r, value) ==
    /\ r \in active
    /\ newer' = [newer EXCEPT ![r] = splitValueIntoCookies(value)]
    /\ ownSet' = [ownSet EXCEPT ![r] = Left(value)]
    /\ UNCHANGED <<browserPieces, active, state, lastLeft, undisturbed>>

Cleared(own) == IF own \in {Nothing, Left(<<>>)} THEN Left(<<>>) ELSE Mixed

(* Only pieces the request arrived with are unset: not those it has set. *)
clearSplitCookies(r) ==
    /\ r \in active
    /\ newer' = [newer EXCEPT ![r] =
                    [i \in Pieces |-> IF state[r][i] # <<>> THEN Piece(<<>>) ELSE newer[r][i]]]
    /\ ownSet' = [ownSet EXCEPT ![r] = Cleared(@)]
    /\ UNCHANGED <<browserPieces, active, state, lastLeft, undisturbed>>

Fits(value) == Len(value) <= additionalCookies * maxLengthPerCookie

(* The browser obeys, but refuses a cookie that is too long: it keeps the one *)
(* it has.  What the request did is known to hold if it met no other, and     *)
(* what it stored fits.                                                      *)
DeliverPieces(r) ==
    /\ r \in active
    /\ active' = active \ {r}
    /\ browserPieces' = [i \in Pieces |->
                     IF newer[r][i].touched /\ Len(newer[r][i].value) <= maxLengthPerCookie
                     THEN newer[r][i].value ELSE browserPieces[i]]
    /\ state' = [state EXCEPT ![r] = [i \in Pieces |-> <<>>]]
    /\ newer' = [newer EXCEPT ![r] = [i \in Pieces |-> Untouched]]
    /\ ownSet' = [ownSet EXCEPT ![r] = Nothing]
    /\ undisturbed' = {}
    /\ lastLeft' = IF newer[r] = [i \in Pieces |-> Untouched] THEN lastLeft
               ELSE IF r \in undisturbed /\ Fits(ownSet[r].value) THEN ownSet[r] ELSE Mixed

(* The answer is lost, and what the request did with it. *)
LosePieces(r) ==
    /\ r \in active
    /\ active' = active \ {r}
    /\ state' = [state EXCEPT ![r] = [i \in Pieces |-> <<>>]]
    /\ newer' = [newer EXCEPT ![r] = [i \in Pieces |-> Untouched]]
    /\ ownSet' = [ownSet EXCEPT ![r] = Nothing]
    /\ undisturbed' = {}
    /\ UNCHANGED <<browserPieces, lastLeft>>

SplitterNext ==
    \/ \E r \in Requests : SendPieces(r)
    \/ \E r \in Requests, v \in Values : setExtraAuthStorage(r, v)
    \/ \E r \in Requests : clearSplitCookies(r)
    \/ \E r \in Requests : DeliverPieces(r) \/ LosePieces(r)

SplitterSpec == SplitterInit /\ [][SplitterNext]_splitterVars

-----------------------------------------------------------------------------
(* A request that has stored a token, and not cleared the storage since,      *)
(* reads that very token back, although the browser does not have it yet and  *)
(* whatever older pieces the request arrived with.                           *)
OwnWriteRead ==
    \A r \in active :
        ownSet[r].did = "left" /\ ownSet[r].value # <<>> =>
            getExtraAuthStorageValue(r) = {ownSet[r].value}

(* What the last undisturbed request stored or cleared is what the browser    *)
(* holds, and so what the next request reads: no piece of an earlier, longer  *)
(* token comes before, between or after, and none survives a clearing.        *)
LeftWhole ==
    lastLeft.did = "left" => FlattenSeq(browserPieces) = lastLeft.value
=============================================================================
