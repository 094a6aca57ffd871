------------------------------ MODULE DosFiles ------------------------------
(***************************************************************************)
(* Open files: the table Files of dos/dos_files.cpp with its reference     *)
(* counts, the handle table of every PSP (dos/dos_classes.cpp), programs   *)
(* that start others and end (dos/dos_execute.cpp), and the shell that     *)
(* redirects its standard handles around a command (shell/shell.cpp).      *)
(*                                                                         *)
(* One action is one call of the running program, or what the shell does   *)
(* before or after a command: no other code runs in between.  What a file  *)
(* holds and where it is read are left out; whether the host can open it   *)
(* is a choice.  Every DOS_OpenFile of a device makes a new DOS_Device.    *)
(***************************************************************************)
EXTENDS Naturals, Sequences, FiniteSets

CONSTANTS
    DOS_FILES,      \* slots of Files (127)
    MaxFiles,       \* entries of a PSP's table (20)
    FileNames,      \* names of files
    Psps,           \* 0 is the first shell; the others are used in order
    MaxDepth,       \* bound on the processes that wait for one another
    Touched         \* bound: the entries programs close and duplicate

None == 255         \* the byte 0xff: no handle, no entry

\* Slots and entries are bytes; SHELL_Init fills the first entries.
ASSUME DosFilesAssumption ==
    /\ DOS_FILES \in 1..None
    /\ MaxFiles \in 3..None
    /\ 0 \in Psps /\ Psps \subseteq Nat /\ IsFiniteSet(Psps)
    /\ MaxDepth \in Nat \ {0}
    /\ Touched \subseteq Nat
    /\ FileNames \cap {"con", "none"} = {}

VARIABLES
    files,      \* Files
    tables,     \* the handle table of each PSP
    running,    \* the PSPs, parent before child
    resident,   \* the PSPs that ended and stayed
    command     \* what the shell of each PSP is doing, if it is one

vars == <<files, tables, running, resident, command>>

Slots == 0..DOS_FILES - 1
Entries == 0..MaxFiles - 1
Names == FileNames \cup {"con"}

Empty == [name |-> "none", refCtr |-> 0, open |-> FALSE, private |-> FALSE]

Current == running[Len(running)]

-----------------------------------------------------------------------------
(* Files and one PSP's table, before and after a call.  s holds both.      *)

Lowest(set) == IF set = {} THEN None ELSE CHOOSE x \in set : \A y \in set : x <= y

FreeSlot(s) == Lowest({h \in Slots : s.files[h] = Empty})
FindFreeFileEntry(s, p) == Lowest({e \in Entries : s.tables[p][e] = None})
FindEntryByHandle(s, p, h) == Lowest({e \in Entries : s.tables[p][e] = h})

\* An entry past the end of the table is not written.
SetFileHandle(s, p, e, h) == IF e \in Entries THEN [s EXCEPT !.tables[p][e] = h] ELSE s

RealHandle(s, p, e) == IF e \in Entries THEN s.tables[p][e] ELSE None

AddRef(s, h) == [s EXCEPT !.files[h].refCtr = @ + 1]

\* A file without references is deleted.
\* Mutant: the count has to fall below zero.
RemoveRefLate(s, h) ==
    IF s.files[h].refCtr < 1 THEN [s EXCEPT !.files[h] = Empty]
    ELSE [s EXCEPT !.files[h].refCtr = @ - 1]

RemoveRef(s, h) ==
    IF s.files[h].refCtr <= 1 THEN [s EXCEPT !.files[h] = Empty]
    ELSE [s EXCEPT !.files[h].refCtr = @ - 1]

HasRoom(s, p) == FreeSlot(s) # None /\ FindFreeFileEntry(s, p) # None

\* Also DOS_CreateFile, whose files are not private: the first free slot and the first free
\* entry.  The flags of a device are the device's own.
DOS_OpenFile(s, p, name, private) ==
    IF ~HasRoom(s, p) THEN s
    ELSE LET h == FreeSlot(s)
             f == [name |-> name, refCtr |-> 0, open |-> TRUE,
                   private |-> private /\ name # "con"]
         IN SetFileHandle(AddRef([s EXCEPT !.files[h] = f], h),
                          p, FindFreeFileEntry(s, p), h)

\* Mutant: the host's file is closed whoever else has it open.
CloseHostAlways(f) == [f EXCEPT !.open = (f.name = "con")]

\* localFile::Close goes by the count before it is lowered; DOS_Device::Close
\* leaves the copy open.
CloseHost(f) ==
    IF f.refCtr = 1 /\ f.name # "con" THEN [f EXCEPT !.open = FALSE] ELSE f

Valid(s, p, e) ==
    LET h == RealHandle(s, p, e) IN h \in Slots /\ s.files[h] # Empty

DOS_CloseFile(s, p, e) ==
    LET h == RealHandle(s, p, e)
    IN IF ~Valid(s, p, e) THEN s
       ELSE RemoveRef(SetFileHandle([s EXCEPT !.files[h] = CloseHost(@)],
                                    p, e, None), h)

IsOpen(s, p, e) == Valid(s, p, e) /\ s.files[RealHandle(s, p, e)].open

DOS_DuplicateEntry(s, p, e) ==
    LET h == RealHandle(s, p, e)
        new == FindFreeFileEntry(s, p)
    IN IF ~IsOpen(s, p, e) \/ new = None THEN s
       ELSE SetFileHandle(AddRef(s, h), p, new, h)

\* Mutant: what the new entry held is forgotten, not closed.
DOS_ForceDuplicateEntryOver(s, p, e, new) ==
    LET h == RealHandle(s, p, e)
    IN IF e = new \/ ~IsOpen(s, p, e) THEN s
       ELSE SetFileHandle(AddRef(s, h), p, new, h)

\* The copy is counted whether or not the table has the new entry.
DOS_ForceDuplicateEntry(s, p, e, new) ==
    LET h == RealHandle(s, p, e)
    IN IF e = new \/ ~IsOpen(s, p, e) THEN s
       ELSE SetFileHandle(AddRef(DOS_CloseFile(s, p, new), h), p, new, h)

Inherited(s, h) == h \in Slots /\ s.files[h] # Empty /\ ~s.files[h].private

\* CopyFileTable for a child.
CopyFileTable(s, parent, child) ==
    LET kept == {e \in Entries : Inherited(s, s.tables[parent][e])}
        uses(h) == Cardinality({e \in kept : s.tables[parent][e] = h})
    IN [files |-> [h \in Slots |-> [s.files[h] EXCEPT !.refCtr = @ + uses(h)]],
        tables |-> [s.tables EXCEPT ![child] =
                      [e \in Entries |->
                         IF e \in kept THEN s.tables[parent][e] ELSE None]]]

\* CloseFiles: every entry from the first on.
CloseFiles(s, p) ==
    LET upto[e \in 0..MaxFiles] ==
          IF e = 0 THEN s ELSE DOS_CloseFile(upto[e - 1], p, e - 1)
    IN upto[MaxFiles]

-----------------------------------------------------------------------------
(* DOS_Shell::ParseLine: before and after the command of a line            *)

OpenIf(ok, s, p, name) == IF ok THEN DOS_OpenFile(s, p, name, FALSE) ELSE s
CloseIf(ok, s, p, e) == IF ok THEN DOS_CloseFile(s, p, e) ELSE s

\* Mutant: when stdin is closed, nothing keeps the output from its entry.
PlaceholderNever(c) == FALSE

\* "con" stands in entry 0 while entry 1 is opened.
Placeholder(c) == ~c.normalstdin /\ c.in = "none"

RedirectIn(s, p, c) ==
    IF ~c.inOk THEN s
    ELSE DOS_OpenFile(CloseIf(c.normalstdin, s, p, 0), p, c.in, FALSE)

RedirectOut(s, p, c) ==
    LET closed == CloseIf(c.normalstdout, s, p, 1)
        placed == OpenIf(Placeholder(c), closed, p, "con")
        opened == IF c.outOk /\ HasRoom(placed, p)
                  THEN DOS_OpenFile(placed, p, c.out, FALSE)
                  ELSE OpenIf(c.normalstdout, placed, p, "con")
    IN IF c.out = "none" THEN s
       ELSE CloseIf(Placeholder(c), opened, p, 0)

\* Mutant: the console is opened for stdout alone.
RestoreNoPlaceholder(s, p, c) ==
    LET input == IF c.in = "none" THEN s
                 ELSE OpenIf(c.normalstdin, DOS_CloseFile(s, p, 0), p, "con")
        output == OpenIf(c.normalstdout, DOS_CloseFile(input, p, 1), p, "con")
    IN IF c.out = "none" THEN input ELSE output

Restore(s, p, c) ==
    LET input == IF c.in = "none" THEN s
                 ELSE OpenIf(c.normalstdin, DOS_CloseFile(s, p, 0), p, "con")
        placed == OpenIf(~c.normalstdin, DOS_CloseFile(input, p, 1), p, "con")
        output == OpenIf(c.normalstdout, placed, p, "con")
    IN IF c.out = "none" THEN input
       ELSE CloseIf(~c.normalstdin, output, p, 0)

-----------------------------------------------------------------------------
(* The system                                                              *)

Program == [doing |-> "program", in |-> "none", out |-> "none", inOk |-> FALSE,
            outOk |-> FALSE, normalstdin |-> FALSE, normalstdout |-> FALSE,
            roomy |-> TRUE]
Idle == [Program EXCEPT !.doing = "idle"]

\* SHELL_Init opens, closes and duplicates until the table of the first
\* shell starts with 01 01 01 00 02.
ShellFiles ==
    LET none == [files |-> [h \in Slots |-> Empty],
                 tables |-> [p \in Psps |-> [e \in Entries |-> None]]]
        two == DOS_OpenFile(DOS_OpenFile(none, 0, "con", FALSE), 0, "con", FALSE)
        std == DOS_ForceDuplicateEntry(
                  DOS_ForceDuplicateEntry(DOS_CloseFile(two, 0, 0), 0, 1, 0),
                  0, 1, 2)
    IN DOS_OpenFile(DOS_OpenFile(std, 0, "con", FALSE), 0, "con", FALSE)

Init ==
    /\ files = ShellFiles.files
    /\ tables = ShellFiles.tables
    /\ running = <<0>>
    /\ resident = {}
    /\ command = [p \in Psps |-> IF p = 0 THEN Idle ELSE Program]

Now == [files |-> files, tables |-> tables]

Becomes(s) == files' = s.files /\ tables' = s.tables

IsProgram == command[Current].doing = "program"
IsShell(doing) == command[Current].doing = doing

\* INT 21h, functions 3Ch, 3Dh, 5Bh and 6Ch.
Open(name, private) ==
    /\ IsProgram
    /\ HasRoom(Now, Current)
    /\ Becomes(DOS_OpenFile(Now, Current, name, private))
    /\ UNCHANGED <<running, resident, command>>

\* Function 0Fh.  A file that is open already gets no second entry.
OpenSlots(name) ==
    {h \in Slots : files[h].name = name /\ files[h].open}

FcbOpen(name) ==
    /\ IsProgram
    /\ OpenSlots(name) = {} /\ HasRoom(Now, Current)
    /\ Becomes(DOS_OpenFile(Now, Current, name, FALSE))
    /\ UNCHANGED <<running, resident, command>>

\* Function 3Eh, and 10h for the entry an FCB names.
Close(e) ==
    /\ IsProgram
    /\ Valid(Now, Current, e)
    /\ Becomes(DOS_CloseFile(Now, Current, e))
    /\ UNCHANGED <<running, resident, command>>

\* Functions 45h and 46h.
Duplicate(e) ==
    /\ IsProgram
    /\ Becomes(DOS_DuplicateEntry(Now, Current, e))
    /\ UNCHANGED <<running, resident, command>>

ForceDuplicate(e, new) ==
    /\ IsProgram
    /\ Becomes(DOS_ForceDuplicateEntry(Now, Current, e, new))
    /\ UNCHANGED <<running, resident, command>>

\* DOS_Execute opens the program in the parent's table and has closed it
\* again when SetupPSP copies the table; nothing is left of it.
Unused == Psps \ ({running[k] : k \in DOMAIN running} \cup resident)

Execute(shell) ==
    /\ IsProgram \/ IsShell("command")
    /\ Len(running) < MaxDepth /\ Unused # {}
    /\ HasRoom(Now, Current)
    /\ LET child == Lowest(Unused)
       IN /\ Becomes(CopyFileTable(Now, Current, child))
          /\ running' = Append(running, child)
          /\ command' = [command EXCEPT ![child] = IF shell THEN Idle ELSE Program]
    /\ UNCHANGED resident

Leave == running' = SubSeq(running, 1, Len(running) - 1)

\* Mutant: the files closed are those of the PSP that is current by then.
TerminateParent ==
    /\ IsProgram \/ IsShell("idle")
    /\ Len(running) > 1
    /\ Becomes(CloseFiles(Now, running[Len(running) - 1]))
    /\ Leave
    /\ command' = [command EXCEPT ![Current] = Program]
    /\ UNCHANGED resident

Terminate ==
    /\ IsProgram \/ IsShell("idle")
    /\ Len(running) > 1
    /\ Becomes(CloseFiles(Now, Current))
    /\ Leave
    /\ command' = [command EXCEPT ![Current] = Program]
    /\ UNCHANGED resident

StayResident ==
    /\ IsProgram
    /\ Len(running) > 1
    /\ Leave
    /\ resident' = resident \cup {Current}
    /\ UNCHANGED <<files, tables, command>>

\* A line of a shell, with its redirections and what the host says of them;
\* roomy is kept for the properties.
FreeSlots == {h \in Slots : files[h] = Empty}
Roomy == Cardinality(FreeSlots) >= 2

Line(in, inOk, out, outOk) ==
    /\ IsShell("idle")
    /\ inOk => in # "none"
    /\ outOk => out # "none"
    /\ \E c \in {[doing |-> "command", in |-> in, out |-> out,
                  inOk |-> inOk /\ HasRoom(Now, Current), outOk |-> outOk,
                  normalstdin |-> tables[Current][0] # None,
                  normalstdout |-> tables[Current][1] # None,
                  roomy |-> Roomy]} :
          /\ Becomes(RedirectOut(RedirectIn(Now, Current, c), Current, c))
          /\ command' = [command EXCEPT ![Current] = c]
    /\ UNCHANGED <<running, resident>>

EndOfCommand ==
    /\ IsShell("command")
    /\ Becomes(Restore(Now, Current, command[Current]))
    /\ command' = [command EXCEPT ![Current] = Idle]
    /\ UNCHANGED <<running, resident>>

Next ==
    \/ \E name \in Names, private \in BOOLEAN : Open(name, private)
    \/ \E name \in FileNames : FcbOpen(name)
    \/ \E e \in Touched : Close(e)
    \/ \E e \in Touched : Duplicate(e)
    \/ \E e, new \in Touched : ForceDuplicate(e, new)
    \/ \E shell \in BOOLEAN : Execute(shell)
    \/ Terminate
    \/ StayResident
    \/ \E in, out \in FileNames \cup {"none"}, inOk, outOk \in BOOLEAN :
          Line(in, inOk, out, outOk)
    \/ EndOfCommand

Spec == Init /\ [][Next]_vars

-----------------------------------------------------------------------------
(* Properties                                                              *)

Processes == {running[k] : k \in DOMAIN running} \cup resident

\* One invariant of the types: a slot is empty or holds a file somebody refers
\* to, and an entry is free or names a slot.
TypeOK ==
    /\ \A h \in Slots : \/ files[h] = Empty
                        \/ files[h] \in [name : Names, refCtr : Nat \ {0},
                                         open : BOOLEAN, private : BOOLEAN]
    /\ tables \in [Psps -> [Entries -> Slots \cup {None}]]
    /\ running \in Seq(Psps) /\ resident \subseteq Psps
    /\ \A p \in Psps : command[p].doing \in {"program", "idle", "command"}

\* The reference count of a file is the number of entries that name it, over
\* every process that runs, waits or is resident: a file is deleted with its
\* last entry (dos_files.cpp:427), no sooner and no later, however it was
\* duplicated, inherited and closed in between.
Holders(h) == {pe \in Psps \X Entries : tables[pe[1]][pe[2]] = h}

CountsMatch ==
    /\ \A h \in Slots : files[h].refCtr = Cardinality(Holders(h))
    /\ \A h \in Slots : \A pe \in Holders(h) : pe[1] \in Processes

\* A file some process holds is open on the host: the host's file goes with
\* the last reference and not with an earlier one (drive_local.cpp:501).  A file
\* opened with DOS_NOT_INHERIT stays with the process that opened it.
HeldIsOpen ==
    \A h \in Slots :
       /\ Holders(h) # {} => files[h].open
       /\ files[h].private => Cardinality({pe[1] : pe \in Holders(h)}) <= 1

\* While a command runs, and whatever the programs it starts do to their own
\* handles, the shell's entries are what the line asked for: stdin is the
\* file it could open, stdout the file it could open or create, and an entry
\* that was closed before is closed still.  The exception is a line that
\* names an input that cannot be opened while stdin is closed: its output
\* then lands in entry 0.  All this unless Files was all but full.
NameAt(p, e) == IF tables[p][e] = None THEN "none" ELSE files[tables[p][e]].name

RedirectReaches ==
    \A p \in Psps :
       LET c == command[p]
           odd == c.in # "none" /\ ~c.inOk /\ ~c.normalstdin
       IN c.doing = "command" /\ c.roomy /\ ~odd =>
            /\ c.inOk => NameAt(p, 0) = c.in
            /\ ~c.inOk => (tables[p][0] # None <=> c.normalstdin)
            /\ c.outOk => NameAt(p, 1) = c.out
            /\ ~c.outOk => (tables[p][1] # None <=> c.normalstdout)

\* After a command the shell has the entries it had before, open or closed,
\* unless Files is all but full: the console takes up to two slots, and a
\* redirected file leaves its own only if no resident program has kept it.
Reusable(p) ==
    {h \in Slots : \/ h = tables[p][0] /\ command[p].in # "none" /\ files[h].refCtr = 1
                   \/ h = tables[p][1] /\ command[p].out # "none" /\ files[h].refCtr = 1}

ShellKeepsEntries ==
    [][\A p \in Psps :
          LET c == command[p]
          IN c.doing = "command" /\ command'[p].doing = "idle"
                /\ c.roomy /\ Cardinality(FreeSlots \cup Reusable(p)) >= 2 =>
             /\ tables'[p][0] # None <=> c.normalstdin
             /\ tables'[p][1] # None <=> c.normalstdout
             /\ \A e \in Entries \ {0, 1} : tables'[p][e] = tables[p][e]]_vars

\* A process that waits or is resident finds its entries, and the files they
\* name, as it left them.
OthersKeepFiles ==
    [][\A p \in Processes \ {Current} :
          /\ tables'[p] = tables[p]
          /\ \A e \in Entries :
                Valid(Now, p, e) =>
                   LET h == tables[p][e]
                   IN files'[h].name = files[h].name /\ files'[h].open]_vars

\* "This shouldnt happen" (dos_files.cpp:938): a file that is found open in
\* Files has no entry in the PSP of the program that opens it by an FCB.
FcbFindsEntry ==
    IsProgram =>
       \A name \in FileNames :
          OpenSlots(name) # {} =>
             FindEntryByHandle(Now, Current, Lowest(OpenSlots(name))) # None

=============================================================================
