--------------------------- MODULE NotebookKernel ---------------------------
(***************************************************************************)
(* The VS Code extension: activate, which starts the language client and   *)
(* registers the rest; MNBKernel, which executes notebook cells by sending *)
(* midas.a requests to the language server; RENOBSerializer, which reads   *)
(* and writes notebook files; and the midas.exportSyntheto command.        *)
(* VS Code and the language client - documents, editors, gestures, the     *)
(* server process - are modelled as these use them.                        *)
(*                                                                         *)
(* The text of a cell is the number of edits it has seen; a program is the *)
(* sequence of cells sent, each with its text.  JavaScript runs to         *)
(* completion between awaits, so a handler is one step up to its await and *)
(* another one after it.                                                   *)
(***************************************************************************)
EXTENDS Naturals, Sequences, FiniteSets, SequencesExt

CONSTANTS
    Notebooks, Cells,
    Home,           \* the notebook each cell belongs to
    Code,           \* the cells of kind Code; the others are Markup
    Contents,       \* the cells each notebook's file holds at first
    New,            \* the notebooks whose file is no JSON yet, being empty
    NoNotebook, None,
    Unreadable,     \* what a file holds that is no JSON
    MaxOpen,        \* bound on the notebooks open at once
    MaxChanges,     \* bound on edits, insertions and deletions together
    MaxRuns         \* bound on the executions started

ASSUME NotebookAssumption ==
    /\ Home \in [Cells -> Notebooks]
    /\ Code \subseteq Cells /\ New \subseteq Notebooks
    /\ \A nb \in Notebooks :
          /\ Contents[nb] \in Seq({c \in Cells : Home[c] = nb})
          /\ \A i, j \in 1..Len(Contents[nb]) : Contents[nb][i] = Contents[nb][j] => i = j
          /\ nb \in New => Contents[nb] = <<>>
    /\ MaxOpen \in Nat /\ MaxChanges \in Nat /\ MaxRuns \in Nat

VARIABLES
    extension,              \* inactive, starting the server, or ready
    notebookDocuments,      \* workspace.notebookDocuments, in opening order
    activeNotebookEditor,   \* the notebook it shows, or NoNotebook
    cells, text, outputs,   \* the documents: cells in order, texts, outputs
    executing,              \* cells whose execution was started, not ended
    executionOrder,         \* MNBKernel._executionOrder
    request,                \* per cell: its pending midas.a
    edit,                   \* per cell: its pending edit of the notebook
    file,                   \* per notebook: what its file holds
    exporting,              \* the program a save dialog is open for
    changes,                \* edits, insertions and deletions so far
    displayed               \* history: what each notebook showed when saved

editors   == <<notebookDocuments, activeNotebookEditor>>
documents == <<cells, text, outputs>>
execution == <<executing, executionOrder, request, edit>>
saved     == <<file, displayed>>
vars == <<extension, editors, documents, execution, saved, exporting, changes>>

Line == [cell: Cells, text: 0..MaxChanges]
Output == [success: BOOLEAN, of: Seq(Line)]
Raw == [cell: Cells, text: 0..MaxChanges, output: Output \cup {None}]

ASSUME UnreadableAssumption == Unreadable \notin Seq(Raw)

\* A request knows the editor it was sent from, the number of its execution, and
\* whether there was and still is a server to answer it.
Request == [program: Seq(Line), editor: Notebooks, order: 1..MaxRuns, served: BOOLEAN]

\* A new markup cell for the notebook an editor shows, after the first at cells
\* of the ones the edit was made for.
CellEdit == [program: Seq(Line), editor: Notebooks, at: Nat, over: Seq(Cells)]

Opened == ToSet(notebookDocuments)

TypeOK ==
    /\ extension \in {"inactive", "starting", "ready"}
    /\ notebookDocuments \in Seq(Notebooks)
    /\ activeNotebookEditor \in Opened \cup {NoNotebook}
    /\ cells \in [Notebooks -> Seq(Cells)]
    /\ text \in [Cells -> 0..MaxChanges]
    /\ outputs \in [Cells -> Output \cup {None}]
    /\ executing \subseteq Code
    /\ executionOrder \in 0..MaxRuns
    /\ request \in [Cells -> Request \cup {None}]
    /\ edit \in [Cells -> CellEdit \cup {None}]
    /\ file \in [Notebooks -> Seq(Raw) \cup {Unreadable}]
    /\ displayed \in [Notebooks -> Seq(Raw)]
    /\ exporting \in Seq(Line) \cup {None}
    /\ changes \in 0..MaxChanges

\* VS Code runs, the extension does not yet; no notebook is open.
Init ==
    /\ extension = "inactive"
    /\ notebookDocuments = <<>> /\ activeNotebookEditor = NoNotebook
    /\ cells = [nb \in Notebooks |-> <<>>]
    /\ text = [c \in Cells |-> 0]
    /\ outputs = [c \in Cells |-> None]
    /\ executing = {} /\ executionOrder = 0
    /\ request = [c \in Cells |-> None] /\ edit = [c \in Cells |-> None]
    /\ displayed = [nb \in Notebooks |->
                      [i \in 1..Len(Contents[nb]) |->
                         [cell |-> Contents[nb][i], text |-> 0, output |-> None]]]
    /\ file = [nb \in Notebooks |-> IF nb \in New THEN Unreadable ELSE displayed[nb]]
    /\ exporting = None
    /\ changes = 0

-----------------------------------------------------------------------------
(* The texts a notebook is made of. *)

Here(c) == c \in ToSet(cells[Home[c]])
Index(nb, c) == CHOOSE i \in 1..Len(cells[nb]) : cells[nb][i] = c

CodePlaces(nb) == {i \in 1..Len(cells[nb]) : cells[nb][i] \in Code}

\* The k-th smallest of the numbers in S.
Nth(S, k) == CHOOSE i \in S : Cardinality({j \in S : j <= i}) = k

\* The program made of the cells of nb at some places, in order.
Program(nb, places) ==
    [k \in 1..Cardinality(places) |->
        LET c == cells[nb][Nth(places, k)] IN [cell |-> c, text |-> text[c]]]

\* Variant: the cell itself is left out.
AllCellContentBefore(nb, index) == Program(nb, {i \in CodePlaces(nb) : i < index})

\* Every code cell until one, included, that is at the index or beyond it.
AllCellContent(nb, index) ==
    Program(nb, {i \in CodePlaces(nb) : \A j \in CodePlaces(nb) : j < i => j < index})

\* Every code cell.
WholeProgram(nb) == Program(nb, CodePlaces(nb))

\* What a notebook shows: its cells, texts and outputs.
Display(nb) ==
    [i \in 1..Len(cells[nb]) |->
        LET c == cells[nb][i] IN [cell |-> c, text |-> text[c], output |-> outputs[c]]]

-----------------------------------------------------------------------------
(* The extension and the language server it starts. *)

\* activate registers the kernel, the serializer and the export command; the
\* language client it starts is not waited for.
Activate ==
    /\ extension = "inactive"
    /\ extension' = "starting"
    /\ UNCHANGED <<editors, documents, execution, saved, exporting, changes>>

ServerReady ==
    /\ extension = "starting"
    /\ extension' = "ready"
    /\ UNCHANGED <<editors, documents, execution, saved, exporting, changes>>

\* The server dies; the client starts another one, and rejects what the old one
\* has not answered.
ServerStops ==
    /\ extension = "ready"
    /\ extension' = "starting"
    /\ request' = [c \in Cells |-> IF request[c] = None THEN None
                                   ELSE [request[c] EXCEPT !.served = FALSE]]
    /\ UNCHANGED <<editors, documents, executing, executionOrder, edit, saved, exporting,
                   changes>>

-----------------------------------------------------------------------------
(* Opening, closing, editing: VS Code, with deserializeNotebook. *)

\* Variant: outputs are not read back.
DeserializeWithoutOutputs(nb) ==
    LET raw == IF file[nb] = Unreadable THEN <<>> ELSE file[nb]
        At(c) == CHOOSE i \in 1..Len(raw) : raw[i].cell = c
        In(c) == \E i \in 1..Len(raw) : raw[i].cell = c
    IN
    /\ cells' = [cells EXCEPT ![nb] = [i \in 1..Len(raw) |-> raw[i].cell]]
    /\ text' = [c \in Cells |-> IF In(c) THEN raw[At(c)].text ELSE text[c]]
    /\ outputs' = [c \in Cells |-> IF In(c) THEN None ELSE outputs[c]]

\* What is no JSON is read as a notebook without cells.
Deserialize(nb) ==
    LET raw == IF file[nb] = Unreadable THEN <<>> ELSE file[nb]
        At(c) == CHOOSE i \in 1..Len(raw) : raw[i].cell = c
        In(c) == \E i \in 1..Len(raw) : raw[i].cell = c
    IN
    /\ cells' = [cells EXCEPT ![nb] = [i \in 1..Len(raw) |-> raw[i].cell]]
    /\ text' = [c \in Cells |-> IF In(c) THEN raw[At(c)].text ELSE text[c]]
    /\ outputs' = [c \in Cells |-> IF In(c) THEN raw[At(c)].output ELSE outputs[c]]

\* The cells read are new ones: their names are free.
OpenNotebook(nb) ==
    /\ extension # "inactive"
    /\ nb \notin Opened /\ Len(notebookDocuments) < MaxOpen
    /\ \A c \in Cells : Home[c] = nb => request[c] = None /\ edit[c] = None
    /\ notebookDocuments' = Append(notebookDocuments, nb)
    /\ activeNotebookEditor' = nb
    /\ Deserialize(nb)
    /\ UNCHANGED <<extension, execution, saved, exporting, changes>>

\* What was not saved is lost.  An execution goes with its cell; what it still
\* waits for is of consequence only if it was sent from another notebook's editor.
CloseNotebook(nb) ==
    LET Kept(pending) ==
          [c \in Cells |-> IF /\ Home[c] = nb /\ pending[c] # None
                              /\ pending[c].editor = nb THEN None ELSE pending[c]]
    IN
    /\ nb \in Opened
    /\ \E i \in 1..Len(notebookDocuments) :
          notebookDocuments[i] = nb /\ notebookDocuments' = RemoveAt(notebookDocuments, i)
    /\ activeNotebookEditor' \in (Opened \ {nb}) \cup {NoNotebook}
    /\ executing' = {c \in executing : Home[c] # nb}
    /\ request' = Kept(request) /\ edit' = Kept(edit)
    /\ cells' = [cells EXCEPT ![nb] = <<>>]
    /\ text' = [c \in Cells |-> IF Home[c] = nb THEN 0 ELSE text[c]]
    /\ outputs' = [c \in Cells |-> IF Home[c] = nb THEN None ELSE outputs[c]]
    /\ UNCHANGED <<extension, executionOrder, saved, exporting, changes>>

\* Another editor is brought to the front, or the last notebook editor is put
\* behind one that shows no notebook.
Focus ==
    /\ activeNotebookEditor' \in Opened \cup {NoNotebook}
    /\ activeNotebookEditor' # activeNotebookEditor
    /\ UNCHANGED <<extension, notebookDocuments, documents, execution, saved, exporting,
                   changes>>

Change == changes < MaxChanges /\ changes' = changes + 1

EditCell(c) ==
    /\ Here(c) /\ Change
    /\ text' = [text EXCEPT ![c] = @ + 1]
    /\ UNCHANGED <<extension, editors, cells, outputs, execution, saved, exporting>>

\* The execution goes with the cell; what it waits for still comes.
DeleteCell(c) ==
    /\ Here(c) /\ Change
    /\ cells' = [cells EXCEPT ![Home[c]] = RemoveAt(@, Index(Home[c], c))]
    /\ executing' = executing \ {c}
    /\ UNCHANGED <<extension, editors, text, outputs, executionOrder, request, edit,
                   saved, exporting>>

\* The cells of nb with an empty one, c, after the first i.
Insert(nb, c, i) ==
    /\ cells' = [cells EXCEPT ![nb] = InsertAt(@, i + 1, c)]
    /\ text' = [text EXCEPT ![c] = 0]

InsertCell(c, i) ==
    /\ Home[c] \in Opened /\ ~Here(c) /\ Change
    /\ request[c] = None /\ edit[c] = None
    /\ Insert(Home[c], c, i)
    /\ outputs' = [outputs EXCEPT ![c] = None]
    /\ UNCHANGED <<extension, editors, execution, saved, exporting>>

-----------------------------------------------------------------------------
(* MNBKernel. *)

\* How many of the selected cells come no later than c in the notebook.
Rank(selected, c) ==
    Cardinality({d \in selected : Index(Home[c], d) <= Index(Home[c], c)})

\* Variant: the executions that one gesture starts are counted once.
LastOrderOnce(selected) == executionOrder + 1

\* ++this._executionOrder, for each of the cells.
LastOrder(selected) == executionOrder + Cardinality(selected)

\* _executeAll, for the code cells selected that are not executing yet (VS Code
\* has only one execution per cell at a time): _doExecuteCell runs for each, in
\* one turn, up to its await.  With no active editor it returns having started
\* an execution it never ends.
ExecuteAll(selected) ==
    /\ extension # "inactive"
    /\ selected # {} /\ selected \cap executing = {}
    /\ LastOrder(selected) <= MaxRuns
    /\ executionOrder' = LastOrder(selected)
    /\ executing' = executing \cup selected
    /\ request' = [c \in Cells |->
                     IF c \in selected /\ activeNotebookEditor # NoNotebook
                       THEN [program |-> AllCellContent(activeNotebookEditor,
                                                        Index(Home[c], c)),
                             editor  |-> activeNotebookEditor,
                             order   |-> executionOrder + Rank(selected, c),
                             served  |-> extension = "ready"]
                       ELSE request[c]]
    /\ UNCHANGED <<extension, editors, documents, edit, saved, exporting, changes>>

\* replaceOutput and end, which do nothing for a cell that is gone.
End(c, success, program) ==
    /\ executing' = executing \ {c}
    /\ outputs' = IF c \in executing
                    THEN [outputs EXCEPT ![c] = [success |-> success, of |-> program]]
                    ELSE outputs

\* Variant: the request is forgotten before the output is made of it.
RespondedForgets(c) ==
    /\ \E success \in BOOLEAN :
         (success => request[c].served) /\ End(c, success, request'[c])
    /\ UNCHANGED edit

\* Variant: the output goes to the cell that is first in the notebook by now.
RespondedFirst(c) ==
    /\ \E success \in BOOLEAN :
         /\ success => request[c].served
         /\ executing' = executing \ {c}
         /\ outputs' = IF c \in executing
                         THEN [outputs EXCEPT ![Head(cells[Home[c]])] =
                                 [success |-> success, of |-> request[c].program]]
                         ELSE outputs
    /\ UNCHANGED edit

\* The answer is a success, an error, or of no type the code knows, or midas.a
\* was rejected.
Responded(c) ==
    /\ \E success \in BOOLEAN :
         (success => request[c].served) /\ End(c, success, request[c].program)
    /\ UNCHANGED edit

\* Variant: the place is counted in the cells that were sent.
TransformedWhereSent(c) ==
    /\ request[c].served
    /\ edit' = [edit EXCEPT ![c] =
                  [program |-> request[c].program, editor |-> request[c].editor,
                   at |-> Len(request[c].program), over |-> cells[request[c].editor]]]
    /\ UNCHANGED <<executing, outputs>>

\* The answer is transformed code, for a new cell below the cell: at the top if
\* the cell was deleted, for then its index is -1.
Transformed(c) ==
    /\ request[c].served
    /\ edit' = [edit EXCEPT ![c] =
                  [program |-> request[c].program,
                   editor  |-> request[c].editor,
                   at      |-> IF Here(c) THEN Index(Home[c], c) ELSE 0,
                   over    |-> cells[request[c].editor]]]
    /\ UNCHANGED <<executing, outputs>>

\* _doExecuteCell once the answer to midas.a, or its rejection, comes.
DoExecuteCell(c) ==
    /\ request[c] # None
    /\ request' = [request EXCEPT ![c] = None]
    /\ Responded(c) \/ Transformed(c)
    /\ UNCHANGED <<extension, editors, cells, text, executionOrder, saved, exporting, changes>>

\* VS Code makes the edit, if the notebook still has the cells it was made for.
EditApplied(e) ==
    /\ e.editor \in Opened /\ cells[e.editor] = e.over /\ e.at <= Len(e.over)
    /\ \E m \in Cells \ Code :
         Home[m] = e.editor /\ ~Here(m) /\ Insert(e.editor, m, e.at)

\* Variant: the execution ends only if the edit was made.
EditResolvedUnlessRefused(c) ==
    /\ edit[c] # None
    /\ edit' = [edit EXCEPT ![c] = None]
    /\ \/ EditApplied(edit[c]) /\ End(c, TRUE, edit[c].program)
       \/ UNCHANGED <<cells, text, executing, outputs>>
    /\ UNCHANGED <<extension, editors, executionOrder, request, saved, exporting, changes>>

\* _doExecuteCell once the edit was made or refused.
EditResolved(c) ==
    /\ edit[c] # None
    /\ edit' = [edit EXCEPT ![c] = None]
    /\ EditApplied(edit[c]) \/ UNCHANGED <<cells, text>>
    /\ End(c, TRUE, edit[c].program)
    /\ UNCHANGED <<extension, editors, executionOrder, request, saved, exporting, changes>>

-----------------------------------------------------------------------------
(* RENOBSerializer and midas.exportSyntheto. *)

\* serializeNotebook writes the notebook opened first, whichever is saved.
SerializeNotebook(nb) ==
    /\ nb \in Opened
    /\ file' = [file EXCEPT ![nb] = Display(notebookDocuments[1])]
    /\ displayed' = [displayed EXCEPT ![nb] = Display(nb)]
    /\ UNCHANGED <<extension, editors, documents, execution, exporting, changes>>

\* Variant: the text of the markup cells is exported, too.
ExportSynthetoAll ==
    /\ extension # "inactive"
    /\ notebookDocuments # <<>> /\ exporting = None
    /\ exporting' = LET nb == notebookDocuments[1] IN Program(nb, 1..Len(cells[nb]))
    /\ UNCHANGED <<extension, editors, documents, execution, saved, changes>>

\* The text is put together, then the save dialog is shown.
ExportSyntheto ==
    /\ extension # "inactive"
    /\ notebookDocuments # <<>> /\ exporting = None
    /\ exporting' = WholeProgram(notebookDocuments[1])
    /\ UNCHANGED <<extension, editors, documents, execution, saved, changes>>

\* The program is written to the file chosen, if one is; nothing here reads it.
SaveDialog ==
    /\ exporting # None
    /\ exporting' = None
    /\ UNCHANGED <<extension, editors, documents, execution, saved, changes>>

-----------------------------------------------------------------------------
VSCode ==
    \/ Activate \/ ServerReady \/ ServerStops
    \/ \E nb \in Notebooks : \/ OpenNotebook(nb) \/ CloseNotebook(nb)
                             \/ SerializeNotebook(nb)
    \/ Focus
    \/ \E c \in Cells : EditCell(c) \/ DeleteCell(c)
    \/ \E c \in Cells : \E i \in 0..Len(cells[Home[c]]) : InsertCell(c, i)
    \/ ExportSyntheto \/ SaveDialog

Next ==
    \/ VSCode
    \/ \E nb \in Notebooks :
         \E selected \in SUBSET (ToSet(cells[nb]) \cap Code) : ExecuteAll(selected)
    \/ \E c \in Cells : DoExecuteCell(c) \/ EditResolved(c)

Spec == Init /\ [][Next]_vars

\* The language server answers every request, or the client rejects it, and VS
\* Code makes or refuses every edit.
Fairness ==
    \A c \in Cells : WF_vars(DoExecuteCell(c)) /\ WF_vars(EditResolved(c))

FairSpec == Spec /\ Fairness

-----------------------------------------------------------------------------
(* Properties. *)

\* The program p is the code of the first n cells of nb, as it reads now.
IsCodeOf(p, nb, n) ==
    /\ {p[k].cell : k \in 1..Len(p)} = {cells[nb][i] : i \in 1..n} \cap Code
    /\ \A k \in 1..Len(p) : p[k].text = text[p[k].cell]
    /\ \A k, l \in 1..Len(p) : k < l => Index(nb, p[k].cell) < Index(nb, p[l].cell)

(* Executing a cell sends the code of its notebook up to and including it, as  *)
(* it reads at that moment and in its order, and nothing of another notebook.  *)
SendsItsProgram ==
    [][\A c \in Cells :
         request[c] = None /\ request'[c] # None
           => IsCodeOf(request'[c].program, Home[c], Index(Home[c], c))]_vars

(* An output stands under the cell whose program it answers, wherever cells    *)
(* were moved and whatever was run, saved or reopened since: the program ends  *)
(* with the cell, in a text it has or had.                                     *)
OutputIsTheCells ==
    \A c \in Code : outputs[c] # None =>
        Last(outputs[c].of).cell = c /\ Last(outputs[c].of).text <= text[c]

(* Transformed code goes "right below the running cell" (the comment in the    *)
(* code), wherever that has moved since it was run, unless it was deleted.     *)
BelowItsCell ==
    [][\A c \in Cells :
         LET nb == Home[c]
             i == Index(nb, c)
         IN  edit[c] # None /\ edit'[c] = None /\ Here(c) /\ Here(c)' /\ cells' # cells
               => /\ i < Len(cells'[nb]) /\ cells'[nb][i] = c
                  /\ cells'[nb][i + 1] \notin ToSet(cells[nb])]_vars

(* Opening a notebook file shows what the notebook showed when it was saved.   *)
Reopens ==
    [][\A nb \in Notebooks : OpenNotebook(nb) => Display(nb)' = displayed[nb]]_vars

(* An execution that has sent its request ends, whatever is edited or focused  *)
(* meanwhile, if the server dies, and if the edit it makes is refused.         *)
AnsweredExecutionsEnd ==
    \A c \in Cells : request[c] # None ~> c \notin executing

(* Every execution that is started is ended.                                   *)
ExecutionsEnd == \A c \in Cells : c \in executing ~> c \notin executing

(* What export collects is all the code of its notebook, as it reads then and  *)
(* in its order: the program that running the last code cell sends.            *)
ExportsTheProgram ==
    [][exporting' # exporting /\ exporting' # None =>
         LET nb == notebookDocuments[1] IN IsCodeOf(exporting', nb, Len(cells[nb]))]_vars
=============================================================================
