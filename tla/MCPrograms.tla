----------------------------- MODULE MCPrograms -----------------------------
(***************************************************************************)
(* The mail reader's boxes and its sessions, the address book, the window  *)
(* manager with its taskbar, and threads that share a mutex of the C       *)
(* library, each by itself: one of them runs and the others stay as they   *)
(* are.  The liveness properties have the fairness of theirs as premise.   *)
(***************************************************************************)
EXTENDS MailBoxes, MailSessions, AddressBook, WinMan, Mutex

CONSTANTS t1, t2, t3

ThreeThreads == {t1, t2, t3}

VARIABLE program

BoxesOver == MailInit /\ ~deletemsgs
BookOver == book = <<CHOOSE p \in Persons : TRUE>> /\ serving = TRUE /\ answer = "none"

ProgramsInit ==
    /\ program \in {"boxes", "sessions", "book", "windows", "mutex"}
    /\ IF program = "boxes" THEN MailInit ELSE BoxesOver
    /\ IF program = "book" THEN BookInit ELSE BookOver
    /\ SessionInit /\ WinInit /\ MutexInit

ProgramsNext ==
    \/ program = "boxes" /\ MailNext /\ UNCHANGED <<program, sessionVars, bookVars, winVars, mutexVars>>
    \/ program = "sessions" /\ SessionNext /\ UNCHANGED <<program, mailVars, bookVars, winVars, mutexVars>>
    \/ program = "book" /\ BookNext /\ UNCHANGED <<program, mailVars, sessionVars, winVars, mutexVars>>
    \/ program = "windows" /\ WinNext /\ UNCHANGED <<program, mailVars, sessionVars, bookVars, mutexVars>>
    \/ program = "mutex" /\ MutexNext /\ UNCHANGED <<program, mailVars, sessionVars, bookVars, winVars>>

ProgramsSpec ==
    ProgramsInit /\ [][ProgramsNext]_<<program, mailVars, sessionVars, bookVars, winVars, mutexVars>>
=============================================================================
