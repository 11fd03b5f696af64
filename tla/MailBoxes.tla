------------------------------ MODULE MailBoxes ------------------------------
(***************************************************************************)
(* The mailboxes of src/programs/inetapps/mail/start.c: message files with *)
(* numbers for names, an index per box that is loaded when the box is      *)
(* opened and saved when it is closed, and one temporary.txt in which      *)
(* everything is written.  Mail comes from a POP3 server, moves between    *)
(* boxes and is deleted, and the machine may stop between any two steps    *)
(* that reach the disk.                                                    *)
(*                                                                         *)
(* The user sees one box at a time; the INBOX stays open below the         *)
(* sub-mailbox that is looked at.                                          *)
(***************************************************************************)
EXTENDS Naturals, Queues

CONSTANTS
    MaxMail,       \* messages that ever arrive at the server
    MaxWritten,    \* messages the user ever begins to write
    MaxCrashes,    \* times the machine stops
    MaxChanges     \* marks set, moves made and drafts taken up by the user

ASSUME MailAssumption ==
    MaxMail \in Nat /\ MaxWritten \in Nat /\ MaxCrashes \in Nat /\ MaxChanges \in Nat

VARIABLES
    deletemsgs,    \* the account deletes what it has downloaded from the server
    server,        \* the messages on the server
    mailDisk,      \* mailDisk[b]: the saved index of box b
    mailFiles,     \* mailFiles[b]: the message files of box b
    temporary,     \* temporary.txt: the message being written, or none
    opened,        \* the boxes that are open, INBOX first
    mailIndex,     \* mailIndex[b]: the index of an open box in memory
    doing,         \* what the program is in the middle of
    mailSpent,     \* how much of each bound is used up
    owed,          \* history: the messages that must not be lost
    spoiled        \* history: the boxes whose index was overwritten by a move

mailVars == <<deletemsgs, server, mailDisk, mailFiles, temporary, opened,
              mailIndex, doing, mailSpent, owed, spoiled>>

Boxes == {"INBOX", "DRAFTS", "SENT"}

(* Message m is on the server or on disk; a skipped one is longer than     *)
(* skipsize.  The first MaxMail numbers are for mail that arrives.         *)
NoMsg == 0
Skipped(m) == m = 2
Written == MaxMail + 1 .. MaxMail + MaxWritten

Entry(f, m, kind) == [file |-> f, msg |-> m, kind |-> kind, mark |-> "none"]

(* makenewmessageindex: refnum 0, and the next message to ask for.         *)
NewIndex == [ref |-> 0, first |-> 1, list |-> <<>>]
Idle == [op |-> "idle"]

Top == Last(opened)
IsOpen(b) == \E i \in DOMAIN opened : opened[i] = b

(* The index a change to box b goes to, and what is then saved at once:    *)
(* savetosent and savetodrafts use the one in memory only if the user is   *)
(* looking at that box.                                                    *)
IndexOf(b) == IF Top = b THEN mailIndex[b] ELSE mailDisk[b]

With(b, index) ==
    IF Top = b
    THEN mailIndex' = [mailIndex EXCEPT ![b] = index] /\ UNCHANGED mailDisk
    ELSE mailDisk' = [mailDisk EXCEPT ![b] = index] /\ UNCHANGED mailIndex

(* Files are partial functions from numbers to messages.                   *)
Put(fs, f, m) == [g \in DOMAIN fs \cup {f} |-> IF g = f THEN m ELSE fs[g]]
Erase(fs, f) == Restrict(fs, DOMAIN fs \ {f})
ReadFile(fs, f) == IF f \in DOMAIN fs THEN fs[f] ELSE NoMsg

MailInit ==
    /\ deletemsgs \in BOOLEAN
    /\ server = <<>>
    /\ mailDisk = [b \in Boxes |-> NewIndex]
    /\ mailFiles = [b \in Boxes |-> <<>>]
    /\ temporary = NoMsg
    /\ opened = <<>>
    /\ mailIndex = [b \in Boxes |-> NewIndex]
    /\ doing = Idle
    /\ mailSpent = [mail |-> 0, written |-> 0, crashes |-> 0, changes |-> 0]
    /\ owed = {} /\ spoiled = {}

Spend(what, max) ==
    mailSpent[what] < max /\ mailSpent' = [mailSpent EXCEPT ![what] = @ + 1]

-----------------------------------------------------------------------------
(* Opening and closing *)

Looking == doing = Idle /\ opened # <<>>

openmailbox ==
    /\ doing = Idle
    /\ \E b \in Boxes :
          /\ opened = IF b = "INBOX" THEN <<>> ELSE <<"INBOX">>
          /\ opened' = Append(opened, b)
          /\ mailIndex' = [mailIndex EXCEPT ![b] = mailDisk[b]]
    /\ UNCHANGED <<deletemsgs, server, mailDisk, mailFiles, temporary, doing, mailSpent, owed, spoiled>>

Marked(list, k) == {i \in DOMAIN list : list[i].mark = k}

(* Key 'E'; closemailbox begins with it.                                   *)
Expunge ==
    /\ Looking
    /\ \/ Marked(mailIndex[Top].list, "delete") # {} /\ doing' = [op |-> "expunge", then |-> "idle"]
       \/ doing' = [op |-> "expunge", then |-> "close"]
    /\ UNCHANGED <<deletemsgs, server, mailDisk, mailFiles, temporary, opened, mailIndex, mailSpent,
                   owed, spoiled>>

(* The loop removes the files of the marked messages in the list's order,  *)
(* and their entries in memory.                                            *)
expungemailbox ==
    /\ doing.op = "expunge"
    /\ LET list == mailIndex[Top].list
           gone == Marked(list, "delete")
       IN  \/ /\ gone = {}
              /\ doing' = [op |-> doing.then]
              /\ UNCHANGED <<mailFiles, mailIndex, owed>>
           \/ \E i \in gone :
                 /\ \A j \in gone : i <= j
                 /\ mailFiles' = [mailFiles EXCEPT ![Top] = Erase(@, list[i].file)]
                 /\ mailIndex' = [mailIndex EXCEPT ![Top].list = RemoveAt(@, i)]
                 /\ owed' = owed \ {list[i].msg}
                 /\ UNCHANGED doing
    /\ UNCHANGED <<deletemsgs, server, mailDisk, temporary, opened, mailSpent, spoiled>>

(* The rest of closemailbox saves the index.                               *)
closemailbox ==
    /\ doing.op = "close"
    /\ mailDisk' = [mailDisk EXCEPT ![Top] = mailIndex[Top]]
    /\ opened' = Front(opened)
    /\ doing' = Idle
    /\ UNCHANGED <<deletemsgs, server, mailFiles, temporary, mailIndex, mailSpent, owed, spoiled>>

(* Keys ' ' and DEL: each sets its mark or takes it away, unless the other *)
(* is set.                                                                 *)
Mark ==
    /\ Looking /\ Spend("changes", MaxChanges)
    /\ \E i \in DOMAIN mailIndex[Top].list, k \in {"flag", "delete"} :
          LET e == mailIndex[Top].list[i] IN
          /\ e.mark \in {"none", k}
          /\ mailIndex' = [mailIndex EXCEPT ![Top].list[i].mark = IF e.mark = k THEN "none" ELSE k]
    /\ UNCHANGED <<deletemsgs, server, mailDisk, mailFiles, temporary, opened, doing, owed, spoiled>>

-----------------------------------------------------------------------------
(* New mail *)

MailArrives ==
    /\ Spend("mail", MaxMail)
    /\ server' = Append(server, mailSpent'.mail)
    /\ UNCHANGED <<deletemsgs, mailDisk, mailFiles, temporary, opened, mailIndex, doing, owed, spoiled>>

(* getnewmsgsinfo: LIST firstnum must succeed.                             *)
FetchBegins ==
    /\ Looking /\ Top = "INBOX"
    /\ mailIndex["INBOX"].first \in DOMAIN server
    /\ doing' = [op |-> "fetch", next |-> mailIndex["INBOX"].first, count |-> Len(server) + 1,
                 ref |-> mailIndex["INBOX"].ref, got |-> {}]
    /\ UNCHANGED <<deletemsgs, server, mailDisk, mailFiles, temporary, opened, mailIndex, mailSpent,
                   owed, spoiled>>

(* The loop of getnewmail: a message goes to the file refnum, and its      *)
(* entry into memory; one that is too long is passed over.                 *)
getnewmail ==
    /\ doing.op = "fetch" /\ doing.next < doing.count
    /\ LET m == server[doing.next] IN
       \/ /\ Skipped(m)
          /\ doing' = [doing EXCEPT !.next = @ + 1]
          /\ UNCHANGED <<mailFiles, mailIndex>>
       \/ /\ ~Skipped(m)
          /\ mailFiles' = [mailFiles EXCEPT !["INBOX"] = Put(@, doing.ref, m)]
          /\ mailIndex' = [mailIndex EXCEPT !["INBOX"].list = Append(@, Entry(doing.ref, m, "mail"))]
          /\ doing' = [doing EXCEPT !.next = @ + 1, !.ref = @ + 1, !.got = @ \cup {m}]
    /\ UNCHANGED <<deletemsgs, server, mailDisk, temporary, opened, mailSpent, owed, spoiled>>

(* QUIT: now the server deletes what DELE named.                           *)
terminateconnection ==
    /\ doing.op = "fetch" /\ doing.next = doing.count
    /\ server' = IF deletemsgs THEN Only(server, ToSet(server) \ doing.got) ELSE server
    /\ doing' = [op |-> "count", count |-> doing.count, ref |-> doing.ref]
    /\ owed' = owed \cup doing.got
    /\ UNCHANGED <<deletemsgs, mailDisk, mailFiles, temporary, opened, mailIndex, mailSpent, spoiled>>

(* The new firstnum and refnum, and openmailbox saves the index.           *)
NumbersSaved ==
    /\ doing.op = "count"
    /\ LET inbox == [mailIndex["INBOX"] EXCEPT
                        !.first = IF deletemsgs THEN Len(server) ELSE doing.count,
                        !.ref = doing.ref]
       IN  /\ mailIndex' = [mailIndex EXCEPT !["INBOX"] = inbox]
           /\ mailDisk' = [mailDisk EXCEPT !["INBOX"] = inbox]
    /\ doing' = Idle
    /\ UNCHANGED <<deletemsgs, server, mailFiles, temporary, opened, mailSpent, owed, spoiled>>

-----------------------------------------------------------------------------
(* Writing *)

NextWritten == MaxMail + mailSpent.written + 1

(* Key 'c', or a reply: a new temporary.txt over whatever was left there.  *)
ComposeNew ==
    /\ Looking /\ Spend("written", MaxWritten)
    /\ temporary' = NextWritten
    /\ doing' = [op |-> "compose"]
    /\ UNCHANGED <<deletemsgs, server, mailDisk, mailFiles, opened, mailIndex, owed, spoiled>>

(* openmessage: a draft is moved to temporary.txt and its entry taken out; *)
(* something sent is copied there and is a new message.  If the file is    *)
(* not there the mv fails and temporary.txt stays what it was.             *)
openmessage ==
    /\ Looking
    /\ \E i \in DOMAIN mailIndex[Top].list :
          LET e == mailIndex[Top].list[i]
              m == ReadFile(mailFiles[Top], e.file)
          IN  \/ /\ e.kind = "draft" /\ Spend("changes", MaxChanges)
                 /\ temporary' = IF m = NoMsg THEN temporary ELSE m
                 /\ mailFiles' = [mailFiles EXCEPT ![Top] = Erase(@, e.file)]
                 /\ mailIndex' = [mailIndex EXCEPT ![Top].list = RemoveAt(@, i)]
              \/ /\ e.kind = "sent"
                 /\ Spend("written", MaxWritten)
                 /\ temporary' = IF m = NoMsg THEN temporary ELSE NextWritten
                 /\ UNCHANGED <<mailFiles, mailIndex>>
    /\ doing' = [op |-> "compose"]
    /\ UNCHANGED <<deletemsgs, server, mailDisk, opened, owed, spoiled>>

(* savetosent (after qsend, whatever it answered) and savetodrafts: the    *)
(* file takes the number after refnum ...                                  *)
FileTemporary(b) ==
    LET f == IndexOf(b).ref + 1 IN
    /\ mailFiles' = IF temporary = NoMsg THEN mailFiles
                    ELSE [mailFiles EXCEPT ![b] = Put(@, f, temporary)]
    /\ doing' = [op |-> "file", to |-> b, file |-> f, msg |-> temporary]

Compose ==
    /\ doing.op = "compose"
    /\ \E b \in {"SENT", "DRAFTS"} : FileTemporary(b)
    /\ owed' = owed \cup ({temporary} \ {NoMsg})
    /\ temporary' = NoMsg
    /\ UNCHANGED <<deletemsgs, server, mailDisk, opened, mailIndex, mailSpent, spoiled>>

EntryMadeUncounted ==
    /\ doing.op = "file"
    /\ LET kind == IF doing.to = "SENT" THEN "sent" ELSE "draft"
           index == [IndexOf(doing.to) EXCEPT !.list = Append(@, Entry(doing.file, doing.msg, kind))]
       IN  With(doing.to, index)
    /\ doing' = Idle
    /\ UNCHANGED <<deletemsgs, server, mailFiles, temporary, opened, mailSpent, owed, spoiled>>

(* ... and then the index gets the entry; it is saved unless the user is   *)
(* looking at the box.                                                     *)
EntryMade ==
    /\ doing.op = "file"
    /\ LET kind == IF doing.to = "SENT" THEN "sent" ELSE "draft"
           index == [IndexOf(doing.to) EXCEPT !.ref = doing.file,
                                              !.list = Append(@, Entry(doing.file, doing.msg, kind))]
       IN  With(doing.to, index)
    /\ doing' = Idle
    /\ UNCHANGED <<deletemsgs, server, mailFiles, temporary, opened, mailSpent, owed, spoiled>>

Abandon ==
    /\ doing.op = "compose"
    /\ owed' = owed \ {temporary}
    /\ temporary' = NoMsg
    /\ doing' = Idle
    /\ UNCHANGED <<deletemsgs, server, mailDisk, mailFiles, opened, mailIndex, mailSpent, spoiled>>

-----------------------------------------------------------------------------
(* Moving *)

(* The other index is read from disk, even if it is the one in memory.     *)
movemessagesnow ==
    /\ Looking /\ Spend("changes", MaxChanges)
    /\ mailIndex[Top].list # <<>>
    /\ \E to \in {"DRAFTS", "SENT"} :
          /\ doing' = [op |-> "move", to |-> to, index |-> mailDisk[to], first |-> TRUE]
          /\ spoiled' = IF to = Top \/ Marked(mailIndex[Top].list, "flag") = {}
                        THEN spoiled \cup {to} ELSE spoiled
    /\ UNCHANGED <<deletemsgs, server, mailDisk, mailFiles, temporary, opened, mailIndex, owed>>

(* One round of the loop, which goes from the first entry backwards round  *)
(* the list: mv, and an entry in the other index, also if there was no     *)
(* file any more.                                                          *)
MoveOne ==
    /\ doing.op = "move"
    /\ LET list == mailIndex[Top].list
           flagged == Marked(list, "flag")
           f == doing.index.ref + 1
       IN  \E i \in flagged :
             /\ IF doing.first /\ 1 \in flagged THEN i = 1 ELSE \A j \in flagged : j <= i
             /\ LET m == ReadFile(mailFiles[Top], list[i].file)
                    taken == [mailFiles EXCEPT ![Top] = Erase(@, list[i].file)]
                IN  /\ mailFiles' = IF m = NoMsg THEN mailFiles
                                    ELSE [taken EXCEPT ![doing.to] = Put(@, f, m)]
                    /\ doing' = [doing EXCEPT !.first = FALSE, !.index.ref = f,
                                              !.index.list = Append(@, Entry(f, m, list[i].kind))]
             /\ mailIndex' = [mailIndex EXCEPT ![Top].list = RemoveAt(@, i)]
    /\ UNCHANGED <<deletemsgs, server, mailDisk, temporary, opened, mailSpent, owed, spoiled>>

Moved == doing.op = "move" /\ Marked(mailIndex[Top].list, "flag") = {}

MoveSavedHere ==
    /\ Moved
    /\ mailDisk' = [mailDisk EXCEPT ![Top] = mailIndex[Top]]
    /\ doing' = Idle
    /\ UNCHANGED <<deletemsgs, server, mailFiles, temporary, opened, mailIndex, mailSpent, owed, spoiled>>

(* The index of the other box is saved, and then that of this one.  If     *)
(* nothing was flagged the new refnum is what malloc left in the buffer.   *)
MoveSaved ==
    \/ /\ Moved
       /\ \E ref \in IF doing.first THEN {0, doing.index.ref} ELSE {doing.index.ref} :
             mailDisk' = [mailDisk EXCEPT ![doing.to] = [doing.index EXCEPT !.ref = ref]]
       /\ doing' = [op |-> "movesave"]
       /\ UNCHANGED <<deletemsgs, server, mailFiles, temporary, opened, mailIndex, mailSpent, owed, spoiled>>
    \/ /\ doing.op = "movesave"
       /\ mailDisk' = [mailDisk EXCEPT ![Top] = mailIndex[Top]]
       /\ doing' = Idle
       /\ UNCHANGED <<deletemsgs, server, mailFiles, temporary, opened, mailIndex, mailSpent, owed, spoiled>>

-----------------------------------------------------------------------------
(* The machine stops: what is on disk stays, and a message is owed no more *)
(* if only memory listed it.                                               *)
OnDisk(m) ==
    \E b \in Boxes : \E e \in ToSet(mailDisk[b].list) :
        e.msg = m /\ ReadFile(mailFiles[b], e.file) = m

Crash ==
    /\ opened # <<>>
    /\ Spend("crashes", MaxCrashes)
    /\ opened' = <<>> /\ doing' = Idle
    /\ mailIndex' = [b \in Boxes |-> NewIndex]
    /\ owed' = {m \in owed : OnDisk(m)}
    /\ UNCHANGED <<deletemsgs, server, mailDisk, mailFiles, temporary, spoiled>>

MailNext ==
    \/ openmailbox \/ Expunge \/ expungemailbox \/ closemailbox \/ Mark
    \/ MailArrives \/ FetchBegins \/ getnewmail \/ terminateconnection \/ NumbersSaved
    \/ ComposeNew \/ openmessage \/ Compose \/ EntryMade \/ Abandon
    \/ movemessagesnow \/ MoveOne \/ MoveSaved \/ Crash

MailSpec == MailInit /\ [][MailNext]_mailVars

-----------------------------------------------------------------------------
Current(b) == IF IsOpen(b) THEN mailIndex[b] ELSE mailDisk[b]

(* No entry, on disk or in memory, ever names a file with another message  *)
(* in it: the numbers that getnewmail, savetosent, savetodrafts and        *)
(* movemessagesnow give are never given twice, whatever was lost when the  *)
(* machine stopped.  A box whose index a move overwrote is not promised    *)
(* that: movemessagesnow from a box to itself saves two versions of one    *)
(* index, and with nothing flagged it saves a random refnum.               *)
OwnFiles ==
    \A b \in Boxes \ spoiled : \A e \in ToSet(mailDisk[b].list) \cup ToSet(Current(b).list) :
        e.msg # NoMsg => ReadFile(mailFiles[b], e.file) \in {e.msg, NoMsg}

(* A message is listed in the INBOX once, even if the machine stopped      *)
(* while it was fetched and it was asked for again: firstnum and the       *)
(* entries reach the disk together (getnewmail, openmailbox 'N').          *)
FetchedOnce ==
    \A list \in {mailDisk["INBOX"].list, Current("INBOX").list} :
        \A i, j \in DOMAIN list : list[i].msg = list[j].msg => i = j

(* Between two operations every message that the server was told to delete *)
(* and every one that the user sent or saved is listed in some box with    *)
(* its file, or is being edited: fetching, moving, filing and expunging    *)
(* lose none but those the user deleted, until a move overwrites an index;  *)
(* nothing is fetched twice and no file holds another entry's message.     *)
MailKept ==
    /\ OwnFiles /\ FetchedOnce
    /\ spoiled = {} /\ doing.op \in {"idle", "compose"} =>
        \A m \in owed :
            \/ doing.op = "compose" /\ temporary = m
            \/ \E b \in Boxes : \E e \in ToSet(Current(b).list) :
                  e.msg = m /\ ReadFile(mailFiles[b], e.file) = m
=============================================================================
