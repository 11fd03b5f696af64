------------------------------ MODULE MCMemory ------------------------------
(***************************************************************************)
(* What is made to be run, and the memory it is put into: the assembler,   *)
(* linker and loader, the script language, and the heap, each by itself;   *)
(* one of them works and the others have nothing to do.                    *)
(***************************************************************************)
EXTENDS MCLink, MCScript, MCHeap

VARIABLE part

ToolsRest == sources = <<>> /\ objects = <<>> /\ ja = NoSource /\ LinkInit
ScriptRest ==
    /\ tree = <<>> /\ parser = NewCompiler(<<>>) /\ MainBuf = <<>> /\ offsets = <<>>
    /\ running = <<>> /\ acc = [NumVal(0) EXCEPT !.valid = "none"] /\ stack = <<>>

toolVars == <<asmVars, linkVars>>

MemoryInit ==
    /\ part \in {"tools", "script", "heap"}
    /\ IF part = "tools" THEN ToolsInit ELSE ToolsRest
    /\ IF part = "script" THEN AnInit ELSE ScriptRest
    /\ HeapInit

MemoryNext ==
    \/ part = "tools" /\ ToolsNext /\ UNCHANGED <<part, anVars, heapVars>>
    \/ part = "script" /\ AnNext /\ UNCHANGED <<part, toolVars, heapVars>>
    \/ part = "heap" /\ HeapNext /\ UNCHANGED <<part, toolVars, anVars>>

MemorySpec == MemoryInit /\ [][MemoryNext]_<<part, toolVars, anVars, heapVars>>
=============================================================================
