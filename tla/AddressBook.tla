----------------------------- MODULE AddressBook -----------------------------
(***************************************************************************)
(* The address book service, src/programs/miscapps/addressbookd/start.c:   *)
(* a circular list of entries, kept in the order of their last names by    *)
(* inserting each where a halving search says it belongs.  Clients ask for *)
(* it by name; names are compared without regard to case, and a number     *)
(* stands for all spellings of one name.                                   *)
(***************************************************************************)
EXTENDS Integers, SequencesExt, FiniteSetsExt

CONSTANTS
    LastNames,     \* last names, numbered in the order of strcasecmp
    FirstNames,    \* first names; no first name is Blank
    MaxEntries     \* bound on the entries of the book

Blank == 0

ASSUME BookAssumption ==
    /\ LastNames \subseteq Int /\ MaxEntries \in Nat \ {0}
    /\ FirstNames \subseteq Nat /\ Blank \in FirstNames

VARIABLES
    book,          \* the entries, the one with FirstElem at the head
    serving,       \* the service still takes messages
    answer         \* what it answered last

bookVars == <<book, serving, answer>>

Persons == [last : LastNames, first : FirstNames]

(* Results of a search: a position, or no element, or no return at all.    *)
NULL == 0
Endless == -1

(* The list is circular.                                                   *)
Around(b, i) == 1 + ((i - 1) % Len(b))

BookInit ==
    /\ \E p \in Persons : book = <<p>>
    /\ serving = TRUE
    /\ answer = "none"

-----------------------------------------------------------------------------
(* pinpointelement: among the entries around position e that have the last *)
(* name, the one with the first name; else, for NEAREST and for a blank    *)
(* first name, where its loop stopped.  The two loops that look for the    *)
(* ends of that run go round and round if nobody has another last name.    *)
pinpointelement(b, e, p, nearest) ==
    LET Same(i) == b[Around(b, i)].last = p.last
        from == e - Min({k \in 0..Len(b) : ~Same(e - k - 1)})
        to == e + Min({k \in 0..Len(b) : ~Same(e + k + 1)})
        end == IF to >= Len(b) THEN Len(b) ELSE to
        hits == {i \in from..end : b[Around(b, i)].first = p.first}
    IN  IF \A i \in DOMAIN b : Same(i) THEN Endless
        ELSE IF p.first = Blank THEN Around(b, from)
        ELSE IF hits # {} THEN Around(b, Min(hits))
        ELSE IF ~nearest THEN NULL
        ELSE IF end = Len(b) THEN end ELSE end + 1

(* What is left when there is nothing to halve: one entry at a time,       *)
(* forwards ...                                                            *)
ScanForward(b, e, p, nearest) ==
    LET later == {i \in e + 1 .. Len(b) : p.last <= b[i].last}
    IN  IF later = {} THEN NULL
        ELSE IF b[Min(later)].last = p.last THEN pinpointelement(b, Min(later), p, nearest)
        ELSE IF nearest THEN Min(later) ELSE NULL

ScanBackwardTooFar(b, e, p, nearest) ==
    LET earlier == {i \in 1 .. e - 1 : p.last >= b[i].last}
    IN  IF earlier # {} /\ b[Max(earlier)].last = p.last
        THEN pinpointelement(b, Max(earlier), p, nearest)
        ELSE IF ~nearest THEN NULL
        ELSE IF earlier = {} THEN 1 ELSE Max(earlier)

(* ... or backwards.                                                       *)
ScanBackward(b, e, p, nearest) ==
    LET earlier == {i \in 1 .. e - 1 : p.last >= b[i].last}
    IN  IF earlier # {} /\ b[Max(earlier)].last = p.last
        THEN pinpointelement(b, Max(earlier), p, nearest)
        ELSE IF ~nearest THEN NULL
        ELSE IF earlier = {} THEN 1 ELSE Max(earlier) + 1

(* queryforelement from position e on, with left entries to scan: jumps of *)
(* half the length, a quarter and so on.                                   *)
RECURSIVE Search(_, _, _, _, _)
Search(b, e, left, p, nearest) ==
    LET half == left \div 2
        forward == p.last > b[e].last
    IN  IF p.last = b[e].last THEN pinpointelement(b, e, p, nearest)
        ELSE IF half = 0
             THEN IF forward THEN ScanForward(b, e, p, nearest) ELSE ScanBackward(b, e, p, nearest)
        ELSE IF forward THEN Search(b, Around(b, e + half), half, p, nearest)
        ELSE IF e > half THEN Search(b, e - half, half, p, nearest)
        ELSE Search(b, 1, 0, p, nearest)

queryforelement(b, p, nearest) == Search(b, 1, Len(b), p, nearest)

-----------------------------------------------------------------------------
(* Every request searches first.  The service does not come back from an   *)
(* endless search, nor from reading the first entry of a book that is      *)
(* empty.                                                                  *)
Found(p, nearest) == IF book = <<>> THEN Endless ELSE queryforelement(book, p, nearest)

Hangs(p, nearest) ==
    /\ serving /\ Found(p, nearest) = Endless
    /\ serving' = FALSE /\ UNCHANGED <<book, answer>>

ComesBack(p, nearest) == serving /\ Found(p, nearest) # Endless /\ UNCHANGED serving

Answers(a) == answer' = a

makeentry(p) ==
    \/ Hangs(p, TRUE)
    \/ LET i == Found(p, TRUE)
       IN  /\ ComesBack(p, TRUE)
           /\ IF i # NULL /\ book[i].last = p.last /\ p.first \in {Blank, book[i].first}
              THEN Answers("ERROR") /\ UNCHANGED book
              ELSE /\ Len(book) < MaxEntries
                   /\ book' = IF i = NULL THEN Append(book, p) ELSE InsertAt(book, i, p)
                   /\ Answers("SUCCESS")

(* The other requests are about an entry that is there.                    *)
NoEntry(p) ==
    \/ Hangs(p, FALSE)
    \/ ComesBack(p, FALSE) /\ Found(p, FALSE) = NULL /\ Answers("NOENTRY") /\ UNCHANGED book

Present(p) == ComesBack(p, FALSE) /\ Found(p, FALSE) # NULL

deleteentry(p) ==
    \/ NoEntry(p)
    \/ Present(p) /\ book' = RemoveAt(book, Found(p, FALSE)) /\ Answers("SUCCESS")

(* putattrib; the client refuses only to change the last name.             *)
putattrib(p, first) ==
    \/ NoEntry(p)
    \/ Present(p) /\ book' = [book EXCEPT ![Found(p, FALSE)].first = first] /\ Answers("SUCCESS")

(* getattrib, whose attribute may be longer than the client's buffer, and  *)
(* deleteattrib of something that is not the name.                         *)
getattrib(p) ==
    \/ NoEntry(p)
    \/ Present(p) /\ UNCHANGED book /\ (Answers("SUCCESS") \/ Answers("ERROR"))

BookNext ==
    \E p \in Persons :
       \/ makeentry(p) \/ deleteentry(p) \/ getattrib(p)
       \/ \E f \in FirstNames : putattrib(p, f)

BookSpec == BookInit /\ [][BookNext]_bookVars

-----------------------------------------------------------------------------
(* The entries stay in the order of their last names, though nothing ever   *)
(* sorts them: every insertion is where the halving search ended.           *)
BookSorted == \A i, j \in DOMAIN book : i < j => book[i].last <= book[j].last

(* In a book that stays in order, a search that returns finds an entry that *)
(* is there, by its full name and by its last name alone, and no other      *)
(* (queryforelement, pinpointelement).                                      *)
SearchFinds ==
    /\ BookSorted
    /\ \A p \in Persons :
          LET i == IF book = <<>> THEN Endless ELSE queryforelement(book, p, FALSE)
              right == {j \in DOMAIN book : book[j].last = p.last /\ p.first \in {Blank, book[j].first}}
          IN  i # Endless => IF right = {} THEN i = NULL ELSE i \in right

=============================================================================
