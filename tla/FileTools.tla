------------------------------ MODULE FileTools ------------------------------
(***************************************************************************)
(* read_file, write_file and append_file (tools/files.rs) over the         *)
(* workspace (workspace/sandbox.rs).  Every run is a task of its own, so   *)
(* calls of different runs interleave between their system calls.          *)
(*                                                                         *)
(* The workspace holds two paths: "top", and "inner" within it.  A call's  *)
(* content is its own name, `size` times.  Symbolic links and the removal  *)
(* of files (by a shell command) are left out.                             *)
(***************************************************************************)
EXTENDS Naturals, Sequences, FiniteSets

CONSTANTS
    MaxCalls,     \* bound: calls, numbered in the order they begin
    MaxActive,    \* bound: calls under way at a time
    Sizes,        \* lengths of contents
    MaxRead,      \* max_read_bytes
    MaxWrite      \* max_write_bytes

ASSUME FileToolsAssumption ==
    /\ MaxCalls \in Nat \ {0} /\ MaxActive \in Nat \ {0}
    /\ Sizes \subseteq Nat /\ Sizes # {}
    /\ MaxRead \in Nat /\ MaxWrite \in Nat

VARIABLES
    canonical,   \* workspace.root is its own canonical path, and not relative
    node, data,  \* what is at a path, and the content of a file
    stage, op, path, arg, size,
    outcome, got,
    overlapped,  \* history: calls whose file another call was changing, or read while they did
    before,      \* history: calls that had succeeded when this one was found a violation
    ref          \* history: what the file should hold

request == <<op, path, arg, size>>
vars == <<canonical, node, data, stage, request, outcome, got, overlapped, before, ref>>

Calls == 1..MaxCalls
Paths == {"top", "inner"}
Torn == <<0>>
Active == {c \in Calls : stage[c] \notin {"idle", "done"}}
Content(c) == [i \in 1..size[c] |-> c]

TypeOK ==
    /\ canonical \in BOOLEAN
    /\ node \in [Paths -> {"absent", "dir", "file"}]
    /\ data \in [Paths -> Seq(Calls)]
    /\ stage \in [Calls -> {"idle", "mkdir", "open", "put", "fetch", "done"}]
    /\ op \in [Calls -> {"none", "read", "write", "append"}]
    /\ path \in [Calls -> Paths]
    /\ arg \in [Calls -> {"relative", "absolute", "outside"}]
    /\ size \in [Calls -> Sizes]
    /\ outcome \in [Calls -> {"none", "ok", "violation", "refused", "error", "lost"}]
    /\ got \in [Calls -> Seq(Calls)]
    /\ overlapped \subseteq Calls
    /\ before \in [Calls -> SUBSET Calls]
    /\ ref \in [Paths -> Seq(Calls \cup {0})]
    /\ \A p \in Paths : data[p] # <<>> => node[p] = "file"
    /\ node["inner"] # "absent" => node["top"] = "dir"

Init ==
    /\ canonical \in BOOLEAN
    /\ node = [p \in Paths |-> "absent"] /\ data = [p \in Paths |-> <<>>]
    /\ stage = [c \in Calls |-> "idle"] /\ op = [c \in Calls |-> "none"]
    /\ path = [c \in Calls |-> "top"] /\ arg = [c \in Calls |-> "relative"]
    /\ size = [c \in Calls |-> CHOOSE n \in Sizes : TRUE]
    /\ outcome = [c \in Calls |-> "none"] /\ got = [c \in Calls |-> <<>>]
    /\ overlapped = {} /\ before = [c \in Calls |-> {}]
    /\ ref = [p \in Paths |-> <<>>]

\* WorkspaceSandbox::resolve.  Only a path that exists is made canonical, and
\* either form must then start with the root as it was configured.
Resolves(p, a) ==
    /\ a # "outside"
    /\ ~canonical => a = "relative" /\ node[p] = "absent"

\* validate_path_tree: what is above the target must not be a file.
ValidTree(p) == p = "inner" => node["top"] # "file"

\* check_read_size, of the length in the metadata.
AllowsRead(n) == n <= MaxRead

\* Mutant: only the new text is measured.
FitsAlone(o, p, n) == n <= MaxWrite

\* append_file: with the length the file has now.
Fits(o, p, n) == o = "append" => Len(data[p]) + n <= MaxWrite

\* What the checks before the first change make of a call.
Judge(o, p, a, n) ==
    IF o # "read" /\ n > MaxWrite THEN "refused"
    ELSE IF ~Resolves(p, a) THEN "violation"
    ELSE IF ~Fits(o, p, n) \/ (o = "read" /\ ~AllowsRead(Len(data[p]))) THEN "refused"
    ELSE IF o # "read" /\ ~ValidTree(p) THEN "violation"
    ELSE "none"

Finish(c, how) ==
    /\ stage' = [stage EXCEPT ![c] = "done"]
    /\ outcome' = [outcome EXCEPT ![c] = how]
Goto(c, s) == stage' = [stage EXCEPT ![c] = s] /\ UNCHANGED outcome

\* The checks of a call, up to its first change.  With a canonical root an
\* absolute path is the relative one spelled out.  A new call and one under way
\* on the same path overlap if either changes it.
Begin(c) ==
    /\ stage[c] = "idle" /\ \A d \in 1..c - 1 : stage[d] # "idle"
    /\ Cardinality(Active) < MaxActive
    /\ \E o \in {"read", "write", "append"}, p \in Paths,
          a \in {"relative", "absolute", "outside"}, n \in Sizes :
        /\ o = "read" => n = CHOOSE m \in Sizes : TRUE
        /\ a = "outside" => p = "top" /\ o = "read"
        /\ a = "absolute" => ~canonical
        /\ op' = [op EXCEPT ![c] = o] /\ path' = [path EXCEPT ![c] = p]
        /\ arg' = [arg EXCEPT ![c] = a] /\ size' = [size EXCEPT ![c] = n]
        /\ IF Judge(o, p, a, n) # "none" THEN Finish(c, Judge(o, p, a, n))
           ELSE Goto(c, IF o = "read" THEN "fetch" ELSE "mkdir")
        /\ before' = IF outcome'[c] = "violation"
                       THEN [before EXCEPT ![c] = {d \in Calls : outcome[d] = "ok"}] ELSE before
        /\ LET others == {d \in Active : path[d] = p /\ (o # "read" \/ op[d] # "read")}
           IN  IF stage'[c] = "done" \/ others = {} THEN UNCHANGED <<overlapped, ref>>
               ELSE /\ overlapped' = overlapped \cup {c} \cup others
                    /\ ref' = IF o # "read" /\ \E d \in others : op[d] # "read"
                                THEN [ref EXCEPT ![p] = Torn] ELSE ref
    /\ UNCHANGED <<canonical, node, data, got>>

\* create_dir_all of the parent.
Mkdir(c) ==
    /\ stage[c] = "mkdir"
    /\ IF path[c] = "inner" /\ node["top"] = "file"
         THEN Finish(c, "error") /\ UNCHANGED node
         ELSE /\ Goto(c, "open")
              /\ node' = IF path[c] = "inner" THEN [node EXCEPT !["top"] = "dir"] ELSE node
    /\ UNCHANGED <<canonical, data, request, got, overlapped, before, ref>>

\* The file is opened; fs::write empties it.
Open(c) ==
    /\ stage[c] = "open"
    /\ LET p == path[c]
       IN  IF node[p] = "dir"
             THEN Finish(c, "error") /\ UNCHANGED <<node, data>>
             ELSE /\ Goto(c, "put")
                  /\ node' = [node EXCEPT ![p] = "file"]
                  /\ data' = IF op[c] = "write" THEN [data EXCEPT ![p] = <<>>] ELSE data
    /\ UNCHANGED <<canonical, request, got, overlapped, before, ref>>

\* Text at the end of the file (append), or over what is there (write).
Put(c, text) ==
    LET old == data[path[c]]
    IN  data' = [data EXCEPT ![path[c]] =
            IF op[c] = "append" THEN old \o text
            ELSE text \o SubSeq(old, Len(text) + 1, Len(old))]

WriteAll(c) ==
    /\ stage[c] = "put"
    /\ Put(c, Content(c))
    /\ Finish(c, "ok")
    /\ ref' = [ref EXCEPT ![path[c]] =
                 IF @ = Torn /\ (op[c] = "append" \/ c \in overlapped) THEN Torn
                 ELSE IF op[c] = "append" THEN @ \o Content(c) ELSE Content(c)]
    /\ UNCHANGED <<canonical, node, request, got, overlapped, before>>

\* The disk is full: part of the text may be in the file.
WriteFails(c) ==
    /\ stage[c] = "put"
    /\ \E n \in 0..size[c] : Put(c, SubSeq(Content(c), 1, n))
    /\ Finish(c, "error")
    /\ ref' = [ref EXCEPT ![path[c]] = Torn]
    /\ UNCHANGED <<canonical, node, request, got, overlapped, before>>

\* read_to_string.
Fetch(c) ==
    /\ stage[c] = "fetch"
    /\ IF node[path[c]] = "file"
         THEN Finish(c, "ok") /\ got' = [got EXCEPT ![c] = data[path[c]]]
         ELSE Finish(c, "error") /\ UNCHANGED got
    /\ UNCHANGED <<canonical, node, data, request, overlapped, before, ref>>

\* The process ends: its calls stop where they are.
Crash ==
    /\ Active # {}
    /\ stage' = [c \in Calls |-> IF c \in Active THEN "done" ELSE stage[c]]
    /\ outcome' = [c \in Calls |-> IF c \in Active THEN "lost" ELSE outcome[c]]
    /\ ref' = [p \in Paths |-> IF \E c \in Active : path[c] = p /\ stage[c] = "put" THEN Torn ELSE ref[p]]
    /\ UNCHANGED <<canonical, node, data, request, got, overlapped, before>>

Next ==
    \/ \E c \in Calls : Begin(c) \/ Mkdir(c) \/ Open(c) \/ WriteAll(c) \/ WriteFails(c) \/ Fetch(c)
    \/ Crash

Spec == Init /\ [][Next]_vars

-----------------------------------------------------------------------------
(***************************************************************************)
(* Properties.                                                             *)
(***************************************************************************)
\* A file holds the last text written to it and what was appended since, in
\* order, unless two calls changed it at once or one was cut short, until a
\* call on its own writes it anew.
FilesAreWhole ==
    \A p \in Paths :
        ref[p] = Torn \/ data[p] = ref[p]
        \/ \E c \in Active : path[c] = p /\ stage[c] = "put"

\* Appending never grows a file beyond max_write_bytes, however often it is
\* called, as long as calls do not overlap: the length is tested first and the
\* text added later.
FilesStaySmall ==
    \A p \in Paths : Len(data[p]) > MaxWrite => \E c \in overlapped : path[c] = p

\* No more than max_read_bytes are read of a file that nobody is changing.
ReadsStaySmall == \A c \in Calls : Len(got[c]) > MaxRead => c \in overlapped

\* The workspace keeps its contents and its limits.
FilesAreSafe == FilesAreWhole /\ FilesStaySmall /\ ReadsStaySmall

\* WorkspaceSandbox::resolve "accepts both relative and absolute paths ...
\* relative paths are resolved against" the root: a path that write_file took
\* is not outside the workspace for a later call.
WrittenIsInside ==
    \A c \in Calls :
        outcome[c] = "violation" =>
            \A d \in before[c] :
                ~(op[d] = "write" /\ path[d] = path[c] /\ arg[d] = arg[c])
=============================================================================
