----------------------------- MODULE FileTools ------------------------------
(***************************************************************************)
(* The sandboxed write tools (payload_agents/_lib/file_tools.py) behind    *)
(* the sweep guards: agents in threads or processes of their own call      *)
(* write_file and apply_patch on shared files, of which another process    *)
(* may relink a directory at any time.  A file's content is the set of the *)
(* pieces in it; an edit puts its piece in once, so its old_string is      *)
(* found as often as expected only while the piece is missing.             *)
(***************************************************************************)
EXTENDS ToolGuards, SequencesExt

CONSTANTS
    Callers,    \* agents, each with one tool call at a time
    Files, Sandbox, \* the files, and those under the allowed roots
    Existing,   \* those that are there at first
    Names,      \* spellings of paths
    Relinked,   \* those that another process may make resolve to another file
    Pieces,     \* what can be written
    KindOf,     \* the guards' view of a piece: "safe", "unsafe" or "unparsable"
    Calls,      \* the calls agents make
    FlagSets    \* flags an agent's pipeline may be built with

Edits == [name : Names, piece : Pieces, wellFormed : BOOLEAN]
WriteCalls == [tool : {"write_file"}, name : Names, piece : Pieces]
PatchCalls == [tool : {"apply_patch"}, edits : Seq(Edits)]
OtherCalls == [tool : {"other"}, view : Views]

ASSUME FileAssumption ==
    /\ Sandbox \subseteq Files /\ Existing \subseteq Files /\ Relinked \subseteq Names
    /\ KindOf \in [Pieces -> {"safe", "unsafe", "unparsable"}]
    /\ FlagSets \subseteq SUBSET Flags
    /\ \A call \in Calls : call \in WriteCalls \/ call \in PatchCalls \/ call \in OtherCalls

VARIABLES
    flags,      \* GALAXY_* flags the pipelines were built with
    rooted,     \* the allowed roots are compared as they resolve: they existed when the
                \* tools were made, or no link is above them
    links,      \* the file each spelling resolves to
    exists,     \* the files there are
    disk,       \* what is in them
    call,       \* each agent's call
    left,       \* apply_patch: the edits not yet validated
    working,    \* apply_patch: its `working', a set of at most one entry per spelling
    todo,       \* the spellings still to write
    outcome,    \* the call that the last step ended: its result and the files it wrote
    wrote,      \* history: files the call wrote
    disturbed,  \* history: another writer or a relink touched a file of the call
    raced,      \* history: a spelling was relinked after its check
    patched     \* history: pieces written by apply_patch

fsVars == <<links, exists, disk>>
toolVars == <<call, left, working, todo>>
history == <<wrote, disturbed, raced, patched>>
writeVars == <<flags, rooted, fsVars, toolVars, outcome, history>>

NoCall == [tool |-> "none"]
NoOutcome == [result |-> "none", wrote |-> {}]
Entries == [name : Names, content : SUBSET Pieces]

FilesTypeOK ==
    /\ flags \in FlagSets /\ rooted \in BOOLEAN
    /\ links \in [Names -> Files]
    /\ exists \subseteq Files /\ disk \in [Files -> SUBSET Pieces]
    /\ \A f \in Files \ exists : disk[f] = {}
    /\ call \in [Callers -> Calls \cup {NoCall}]
    /\ \A c \in Callers :
           /\ call[c] = NoCall => left[c] = << >> /\ working[c] = {} /\ todo[c] = << >>
           /\ left[c] \in Seq(Edits) /\ working[c] \subseteq Entries
           /\ todo[c] \in Seq(Names)
    /\ outcome \in [result : {"none", "ok", "refused", "failed", "denied", "raised"}, wrote : SUBSET Files]
    /\ wrote \in [Callers -> SUBSET Files]
    /\ disturbed \in [Callers -> BOOLEAN] /\ raced \in BOOLEAN
    /\ patched \subseteq Pieces

ToolsInit ==
    /\ flags \in FlagSets /\ rooted \in BOOLEAN
    /\ links \in [Names -> Sandbox]
    /\ exists = Existing /\ disk = [f \in Files |-> {}]
    /\ call = [c \in Callers |-> NoCall]
    /\ left = [c \in Callers |-> << >>]
    /\ working = [c \in Callers |-> {}]
    /\ todo = [c \in Callers |-> << >>]
    /\ outcome = NoOutcome
    /\ wrote = [c \in Callers |-> {}]
    /\ disturbed = [c \in Callers |-> FALSE]
    /\ raced = FALSE /\ patched = {}

---------------------------------------------------------------------------
(* A call and its guards.                                                  *)

\* What the guards see of a call: write_file has a content; apply_patch has its edits
\* under a key that no guard reads.
ViewOf(k) ==
    CASE k.tool = "write_file" -> [EmptyView EXCEPT !.body = KindOf[k.piece], !.memory = "clean"]
      [] k.tool = "apply_patch" -> EmptyView
      [] OTHER -> k.view

\* The call ends, and with it what it kept in local variables.
Over(c, r, files) ==
    /\ outcome' = [result |-> r, wrote |-> wrote[c] \cup files]
    /\ call' = [call EXCEPT ![c] = NoCall]
    /\ left' = [left EXCEPT ![c] = << >>]
    /\ working' = [working EXCEPT ![c] = {}]
    /\ todo' = [todo EXCEPT ![c] = << >>]

\* The names a call has checked and will write to, and what they resolve to.
Checked(c) ==
    IF call[c].tool = "write_file" THEN ToSet(todo[c]) ELSE {e.name : e \in working[c]}
FilesOf(c) == {links[n] : n \in Checked(c)}

\* History of a step of c that writes some files: the other calls on them are disturbed.
Touches(c, files, over) ==
    /\ wrote' = [wrote EXCEPT ![c] = IF over THEN {} ELSE @ \cup files]
    /\ disturbed' = [d \in Callers |-> IF d = c THEN disturbed[c] /\ ~over
                                      ELSE disturbed[d] \/ files \cap FilesOf(d) # {}]
    /\ UNCHANGED raced

\* The call returns or is stopped, having written some files in this step.
Ends(c, r, files) == Over(c, r, files) /\ Touches(c, files, TRUE) /\ UNCHANGED <<flags, rooted>>

\* The call goes on.
GoesOn == outcome' = NoOutcome /\ UNCHANGED <<flags, rooted, call>>

\* The hook raises, and the tool is not called.
Stopped(c, k) ==
    /\ call[c] = NoCall /\ BeforeTool(flags, ViewOf(k)) # "allow"
    /\ Ends(c, IF BeforeTool(flags, ViewOf(k)) = "deny" THEN "denied" ELSE "raised", {})
    /\ UNCHANGED <<fsVars, patched>>

\* The tool starts; one that writes no files is of no interest any further.
Started(c, k) ==
    /\ call[c] = NoCall /\ BeforeTool(flags, ViewOf(k)) = "allow" /\ k.tool # "other"
    /\ call' = [call EXCEPT ![c] = k]
    /\ left' = [left EXCEPT ![c] = IF k.tool = "apply_patch" THEN k.edits ELSE << >>]
    /\ outcome' = NoOutcome
    /\ UNCHANGED <<flags, rooted, fsVars, working, todo, history>>

Passed(c, k) ==
    /\ call[c] = NoCall /\ BeforeTool(flags, ViewOf(k)) = "allow" /\ k.tool = "other"
    /\ Ends(c, "ok", {})
    /\ UNCHANGED <<fsVars, patched>>

\* Mutant of WithinSandbox: a root that was not resolved lets everything through.
WithinSandboxIfRooted(n) == rooted => links[n] \in Sandbox

\* _is_within_sandbox: the resolved path is under a root.  A root that did not exist
\* when the tool was made was not resolved: below a link no path is under it.
WithinSandbox(n) == rooted /\ links[n] \in Sandbox

---------------------------------------------------------------------------
(* Writing a file.                                                         *)

\* Path.write_text, through whatever the spelling resolves to by now.
Puts(n, content) ==
    /\ exists' = exists \cup {links[n]}
    /\ disk' = [disk EXCEPT ![links[n]] = content]
    /\ UNCHANGED links

\* It raises OSError, before the file was opened or after it was truncated.
WriteError(c, n) ==
    \/ UNCHANGED fsVars /\ Ends(c, "failed", {})
    \/ links[n] \in exists /\ Puts(n, {}) /\ Ends(c, "failed", {links[n]})

\* write_file: the path is checked, then written.
WriteRefused(c) ==
    /\ call[c].tool = "write_file" /\ todo[c] = << >> /\ ~WithinSandbox(call[c].name)
    /\ Ends(c, "refused", {})
    /\ UNCHANGED <<fsVars, patched>>

WriteChecked(c) ==
    /\ call[c].tool = "write_file" /\ todo[c] = << >> /\ WithinSandbox(call[c].name)
    /\ todo' = [todo EXCEPT ![c] = <<call[c].name>>]
    /\ GoesOn
    /\ UNCHANGED <<fsVars, left, working, history>>

WriteDone(c) ==
    /\ call[c].tool = "write_file" /\ todo[c] # << >>
    /\ Puts(call[c].name, {call[c].piece})
    /\ Ends(c, "ok", {links[call[c].name]})
    /\ UNCHANGED patched

WriteFails(c) ==
    /\ call[c].tool = "write_file" /\ todo[c] # << >>
    /\ WriteError(c, call[c].name)
    /\ UNCHANGED patched

---------------------------------------------------------------------------
(* apply_patch: validate every edit against a working copy, then write.    *)

Validating(c) == call[c].tool = "apply_patch" /\ left[c] # << >>
Writing(c) == call[c].tool = "apply_patch" /\ left[c] = << >>

Read(c, n) == \E e \in working[c] : e.name = n
CopyOf(c, n) ==
    IF Read(c, n) THEN (CHOOSE e \in working[c] : e.name = n).content ELSE disk[links[n]]

\* An edit whose old_string is there as often as expected.
Applies(c, e) ==
    /\ e.wellFormed /\ WithinSandbox(e.name)
    /\ Read(c, e.name) \/ links[e.name] \in exists
    /\ e.piece \notin CopyOf(c, e.name)

\* The batch is given up; a file that is there may still be unreadable.
EditRefused(c) ==
    /\ Validating(c)
    /\ ~Applies(c, Head(left[c])) \/ ~Read(c, Head(left[c]).name)
    /\ Ends(c, "refused", {})
    /\ UNCHANGED <<fsVars, patched>>

\* The working copies once an edit is made to them.
Edited(c, e) ==
    {w \in working[c] : w.name # e.name}
        \cup {[name |-> e.name, content |-> CopyOf(c, e.name) \cup {e.piece}]}

\* Mutant of EditApplied: the file is written as soon as its edit is validated.
EditWritten(c) ==
    /\ Validating(c) /\ Applies(c, Head(left[c]))
    /\ working' = [working EXCEPT ![c] = Edited(c, Head(left[c]))]
    /\ Puts(Head(left[c]).name, CopyOf(c, Head(left[c]).name) \cup {Head(left[c]).piece})
    /\ Touches(c, {links[Head(left[c]).name]}, FALSE)
    /\ left' = [left EXCEPT ![c] = Tail(@)]
    /\ GoesOn
    /\ UNCHANGED <<todo, patched>>

EditApplied(c) ==
    /\ Validating(c) /\ Applies(c, Head(left[c]))
    /\ working' = [working EXCEPT ![c] = Edited(c, Head(left[c]))]
    /\ todo' = [todo EXCEPT ![c] = IF Read(c, Head(left[c]).name) THEN @
                                   ELSE Append(@, Head(left[c]).name)]
    /\ left' = [left EXCEPT ![c] = Tail(@)]
    /\ GoesOn
    /\ UNCHANGED <<fsVars, history>>

\* Mutant of PatchWrites: a later edit of a file undoes the earlier ones.
PatchWritesLast(c) ==
    /\ Writing(c) /\ todo[c] # << >>
    /\ Puts(Head(todo[c]), disk[links[Head(todo[c])]] \cup {Last(call[c].edits).piece})
    /\ Touches(c, {links[Head(todo[c])]}, FALSE)
    /\ patched' = patched \cup {Last(call[c].edits).piece}
    /\ todo' = [todo EXCEPT ![c] = Tail(@)]
    /\ GoesOn
    /\ UNCHANGED <<left, working>>

PatchWrites(c) ==
    /\ Writing(c) /\ todo[c] # << >>
    /\ Puts(Head(todo[c]), CopyOf(c, Head(todo[c])))
    /\ Touches(c, {links[Head(todo[c])]}, FALSE)
    /\ patched' = patched \cup CopyOf(c, Head(todo[c]))
    /\ todo' = [todo EXCEPT ![c] = Tail(@)]
    /\ GoesOn
    /\ UNCHANGED <<left, working>>

\* A write fails; the files written before it stay written.
PatchFails(c) ==
    /\ Writing(c) /\ todo[c] # << >>
    /\ WriteError(c, Head(todo[c]))
    /\ UNCHANGED patched

PatchDone(c) ==
    /\ Writing(c) /\ todo[c] = << >>
    /\ Ends(c, "ok", {})
    /\ UNCHANGED <<fsVars, patched>>

---------------------------------------------------------------------------
\* Another process makes a spelling resolve to another file.
Relink(n, f) ==
    /\ links[n] # f
    /\ links' = [links EXCEPT ![n] = f]
    /\ raced' = (raced \/ \E c \in Callers : n \in Checked(c))
    /\ disturbed' = [d \in Callers |-> disturbed[d] \/ n \in Checked(d)]
    /\ GoesOn
    /\ UNCHANGED <<exists, disk, left, working, todo, wrote, patched>>

ToolStep(c) ==
    \/ WriteRefused(c) \/ WriteChecked(c) \/ WriteDone(c) \/ WriteFails(c)
    \/ EditRefused(c) \/ EditApplied(c) \/ PatchWrites(c) \/ PatchFails(c) \/ PatchDone(c)

ToolsStep ==
    \/ \E c \in Callers : ToolStep(c) \/ \E k \in Calls : Stopped(c, k) \/ Started(c, k) \/ Passed(c, k)
    \/ \E n \in Relinked, f \in Files : Relink(n, f)

---------------------------------------------------------------------------
(* Properties.                                                             *)

\* The state is well typed, and the tools write nothing outside their sandbox, unless a
\* spelling was relinked between the check of its path and the write.
SandboxHolds == FilesTypeOK /\ ((\E f \in Files \ Sandbox : disk[f] # {}) => raced)

\* apply_patch is all or nothing as long as writing works: a call that was denied or
\* refused has written no file, one that failed half way says so, and the edits a call
\* is about to report are on disk, unless another writer or a relink got in between or
\* the batch spells one file in two ways.
PatchIsAllOrNothing ==
    /\ outcome.result \in {"denied", "raised", "refused"} => outcome.wrote = {}
    /\ \A c \in Callers :
          LET edits == ToSet(call[c].edits)
              aliased == \E d, e \in edits : d.name # e.name /\ links[d.name] = links[e.name]
          IN  Writing(c) /\ todo[c] = << >> /\ ~disturbed[c] /\ ~aliased
                  => \A e \in edits : e.piece \in disk[links[e.name]]

\* With the code review on, unsafe code and text that is not code get to a file only
\* through apply_patch, whose edits no guard reads.
ReviewedUnlessPatched ==
    "codegen" \in flags =>
        \A f \in Files : \A p \in disk[f] : KindOf[p] = "safe" \/ p \in patched
=============================================================================
