--------------------------- MODULE ConditionForm ----------------------------
(***************************************************************************)
(* The tables of measurement conditions of the Quick program:              *)
(* app/quick/recipes.py with the editing part of app/quick/measurements.py *)
(* What is typed into a cell is a draft of the row's uid; it becomes a     *)
(* value when the cell is committed, or when anything that might hide the  *)
(* cell or use the row flushes all drafts.  Errors are kept by row number. *)
(* Three tables: the gate scans ("gate", where a choice hides a cell), the *)
(* photocurrent biases ("bias", where a switch locks one) and the field    *)
(* sweeps ("transport", where each row's gates and derived coordinates are *)
(* calculated from each other).  `f` is the form, a record.                *)
(***************************************************************************)
EXTENDS Integers, Sequences, FiniteSets, SequencesExt, TLC

CONSTANTS Texts,      \* what is typed: numbers, and Bad, which is none
          Bad,
          Scenes      \* how often each thing happens: [typed, ops, turns, details, launches]

Tables == {"gate", "bias", "transport"}
Stored == [gate |-> {"choice", "start", "points"}, bias |-> {"vds", "settle"}, transport |-> {"doping", "efield"}]
Columns == [Stored EXCEPT !["transport"] = @ \cup {"vtg", "vbg"}]
MaxRows == 2
LOCAL Ratios == INSTANCE SweepPlans

VARIABLES f,      \* the form: what the program keeps, and for the properties the inputs that were
          \* refused last, by row ("refused"), and those ever refused in the details ("pane")
          left    \* what may still happen

vars == <<f, left>>

-----------------------------------------------------------------------------
(* Cells. *)

Rows(s) == s.rows[s.mode]
Position(s, uid) == SelectInSeq(Rows(s), LAMBDA r : r.uid = uid)
Gates(s, row) == Ratios!DerivedToGates(row.v["doping"], row.v["efield"], s.ratio, "Vtg")

\* RecipeModel.cells: what a row shows, and what of it may be edited.
Visible(s, row, c) == ~(s.mode = "gate" /\ c = "start" /\ row.v["choice"] = 0)
ReadOnly(s, c) ==
    \/ s.mode = "bias" /\ c = "vds" /\ ~s.useVds
    \/ s.mode = "transport" /\ c \in {"vtg", "vbg"} /\ (s.coords = "Derived" \/ s.ratio = 0)
    \/ s.mode = "transport" /\ c \in {"doping", "efield"} /\ s.coords = "Raw"
Value(s, row, c) ==
    IF c \notin {"vtg", "vbg"} THEN row.v[c]
    ELSE IF s.ratio = 0 THEN Bad ELSE Gates(s, row)[IF c = "vtg" THEN 1 ELSE 2]
DraftOf(s, uid, c) ==
    LET k == SelectInSeq(s.drafts[s.mode], LAMBDA d : d.uid = uid /\ d.c = c)
    IN  IF k = 0 THEN <<>> ELSE <<s.drafts[s.mode][k].text>>
Cells(s, i) ==
    LET row == Rows(s)[i]
    IN  [c \in {k \in Columns[s.mode] : Visible(s, row, k)} |->
            [value |-> Value(s, row, c), readOnly |-> ReadOnly(s, c),
             error |-> <<i, c>> \in s.errors[s.mode], draft |-> DraftOf(s, row.uid, c)]]
Editable(s, i, c) == c \in DOMAIN Cells(s, i) /\ ~ReadOnly(s, c)

\* notify_row and notify_all: the cells on the screen are brought up to date.
Notify(s, i) == [s EXCEPT !.shown[s.mode][Rows(s)[i].uid] = Cells(s, i)]
NotifyAll(s) == [s EXCEPT !.shown[s.mode] = [u \in DOMAIN @ |-> Cells(s, Position(s, u))]]

-----------------------------------------------------------------------------
(* Committing. *)

\* _set_recipe_cell: a gate typed in Raw coordinates changes both derived ones.
Stores(s, i, c, text) ==
    LET g == Gates(s, Rows(s)[i])
        n == IF c = "vtg" THEN <<text, g[2]>> ELSE <<g[1], text>>
        d == Ratios!GatesToDerived(n[1], n[2], s.ratio, "Vtg")
    IN  IF c \in {"vtg", "vbg"} THEN [Rows(s)[i].v EXCEPT !["doping"] = d[1], !["efield"] = d[2]]
        ELSE [Rows(s)[i].v EXCEPT ![c] = text]
SetCell(s, i, c, text) ==
    LET cell == <<Rows(s)[i].uid, c>>
    IN  IF text = Bad
        THEN Notify([s EXCEPT !.errors[s.mode] = @ \cup {<<i, c>>}, !.refused = @ \cup {cell}], i)
        ELSE [s EXCEPT !.rows[s.mode][i].v = Stores(s, i, c, text),
                       !.errors[s.mode] = @ \ {<<i, c>>}, !.refused = @ \ {cell}]

\* commit: a cell that is not there, or not to be edited, is refused and keeps its draft.
Refuses(s, uid, c, text) ==
    s.active \/ Position(s, uid) = 0 \/ ~Editable(s, Position(s, uid), c) \/ text = Bad
Undrafted(s, uid, c) == [s EXCEPT !.drafts[s.mode] = SelectSeq(@, LAMBDA d : d.uid # uid \/ d.c # c)]
Commit(s, uid, c, text) ==
    LET i == Position(s, uid)
    IN  IF s.active \/ i = 0 \/ (i # 0 /\ ~Editable(s, i, c)) THEN s
        ELSE IF text = Bad THEN SetCell(s, i, c, text)
        ELSE Notify(Undrafted(SetCell(s, i, c, text), uid, c), i)

\* flush: the drafts in their order, until one is refused.
Flush(s) ==
    LET Next(r, d) == IF ~r.ok THEN r
                      ELSE [form |-> Commit(r.form, d.uid, d.c, d.text),
                            ok |-> ~Refuses(r.form, d.uid, d.c, d.text)]
    IN  FoldLeft(Next, [form |-> s, ok |-> TRUE], s.drafts[s.mode])
Flushes(s) == Flush(s).ok
After(s) == Flush(s).form

-----------------------------------------------------------------------------
(* Rows. *)

\* _shift_row_errors: errors follow their rows.
ShiftErrors(s, index, removing) ==
    [s EXCEPT !.errors[s.mode] =
        {IF e[1] >= index THEN <<IF removing THEN e[1] - 1 ELSE e[1] + 1, e[2]>> ELSE e :
            e \in {x \in @ : ~(removing /\ x[1] = index)}}]

NewRow(s, v) == [uid |-> s.next, v |-> v]
Inserted(s, index, v) ==
    LET t == [s EXCEPT !.rows[s.mode] = InsertAt(@, index, NewRow(s, v)), !.next = @ + 1,
                       !.selected[s.mode] = index]
    IN  [t EXCEPT !.shown[s.mode] = (s.next :> Cells(t, index)) @@ @]
Added(s) == Inserted(s, Len(Rows(s)) + 1, [c \in Stored[s.mode] |-> IF c = "choice" THEN 1 ELSE 0])
Duplicated(s) ==
    LET i == s.selected[s.mode] IN Inserted(ShiftErrors(s, i + 1, FALSE), i + 1, Rows(s)[i].v)
Removed(s) ==
    LET i == s.selected[s.mode]
        uid == Rows(s)[i].uid
        t == ShiftErrors(s, i, TRUE)
        n == Len(Rows(s)) - 1
    IN  [t EXCEPT !.rows[s.mode] = RemoveAt(@, i),
                  !.drafts[s.mode] = SelectSeq(@, LAMBDA d : d.uid # uid),
                  !.shown[s.mode] = [u \in DOMAIN @ \ {uid} |-> @[u]],
                  !.refused = {x \in @ : x[1] # uid},
                  !.selected[s.mode] = IF n = 0 THEN 0 ELSE IF i <= n THEN i ELSE n]

-----------------------------------------------------------------------------
(* What the user does.  A run locks the form until its cleanup has ended.  *)

May(what) == left[what] > 0 /\ left' = [left EXCEPT ![what] = @ - 1]

Init ==
    /\ \E m \in Tables :
         f = [mode |-> m, rows |-> [k \in Tables |-> <<>>], errors |-> [k \in Tables |-> {}],
              drafts |-> [k \in Tables |-> <<>>], shown |-> [k \in Tables |-> <<>>],
              selected |-> [k \in Tables |-> 0], coords |-> "Derived", ratio |-> 1, useVds |-> TRUE,
              ratioError |-> FALSE, active |-> FALSE, next |-> 1, refused |-> {}, pane |-> {}]
    /\ left \in Scenes

\* InputField.onTextEdited, rememberDraft: only what is shown as editable is typed into.
Typed(s, uid, c, text) ==
    LET known == DraftOf(s, uid, c) # <<>>
        t == [s EXCEPT !.drafts[s.mode] =
                IF known THEN [k \in DOMAIN @ |-> IF @[k].uid = uid /\ @[k].c = c THEN [@[k] EXCEPT !.text = text] ELSE @[k]]
                ELSE Append(@, [uid |-> uid, c |-> c, text |-> text])]
    IN  [t EXCEPT !.shown[s.mode][uid][c].draft = <<text>>]
Type ==
    /\ ~f.active /\ May("typed")
    /\ \E i \in DOMAIN Rows(f), c \in Columns[f.mode] \ {"choice"}, text \in Texts :
          /\ c \in DOMAIN f.shown[f.mode][Rows(f)[i].uid] /\ ~f.shown[f.mode][Rows(f)[i].uid][c].readOnly
          /\ f' = Typed(f, Rows(f)[i].uid, c, text)

\* applyDraft: the field is left, or Enter is pressed.
Leave ==
    /\ UNCHANGED left
    /\ \E d \in Range(f.drafts[f.mode]) : f' = Commit(f, d.uid, d.c, d.text) /\ f' # f

\* A choice that hides a cell: the drafts go first, so that none is hidden.
Choose ==
    /\ ~f.active /\ f.mode = "gate" /\ May("ops")
    /\ \E i \in DOMAIN Rows(f) :
          LET v == 1 - Rows(f)[i].v["choice"]
          IN  f' = IF Flushes(f) THEN Commit(After(f), Rows(f)[i].uid, "choice", v) ELSE After(f)

\* setRowValue from the details of the selected row, which keep no draft.
Detail ==
    /\ ~f.active /\ f.mode = "gate" /\ f.selected["gate"] # 0 /\ May("details")
    /\ \E c \in DOMAIN Cells(f, f.selected["gate"]) \ {"choice"}, text \in Texts :
          LET i == f.selected["gate"]
              t == SetCell(f, i, c, text)
          IN  f' = IF text = Bad THEN [t EXCEPT !.pane = @ \cup {<<Rows(f)[i].uid, c>>}] ELSE Notify(t, i)

\* A mutant: the calculated coordinates are kept instead of the voltages entered.
KeptCoordinates(s, row, ratio) == row

\* setValue of the coupling ratio: Raw gates keep their voltages, derived ones their
\* coordinates; a refused ratio is kept as an error.
Kept(s, row, ratio) ==
    LET d == Ratios!GatesToDerived(Gates(s, row)[1], Gates(s, row)[2], ratio, "Vtg")
    IN  IF s.coords = "Raw" THEN [row EXCEPT !.v = [doping |-> d[1], efield |-> d[2]]] ELSE row
SetRatio ==
    /\ ~f.active /\ f.mode = "transport" /\ May("turns")
    /\ \E r \in {0, 1, 2} \ {f.ratio} :
          LET s == After(f)
              raw == s.coords = "Raw"
          IN  f' = IF ~Flushes(f) THEN s
                   ELSE IF raw /\ (r = 0 \/ (s.ratio = 0 /\ Rows(s) # <<>>)) THEN [s EXCEPT !.ratioError = TRUE]
                   ELSE NotifyAll([s EXCEPT !.ratio = r, !.ratioError = FALSE,
                            !.rows["transport"] = [i \in DOMAIN @ |-> Kept(s, @[i], r)]])

SetUseVds ==
    /\ ~f.active /\ f.mode = "bias" /\ May("turns")
    /\ f' = IF Flushes(f) THEN NotifyAll([After(f) EXCEPT !.useVds = ~@]) ELSE After(f)

\* _set_transport_coordinates, refused while a row cannot be converted.
SetCoordinates ==
    /\ ~f.active /\ f.mode = "transport" /\ May("turns")
    /\ LET s == After(f)
           blocked == s.errors["transport"] # {} \/ s.ratioError \/ (s.ratio = 0 /\ Rows(s) # <<>>)
       IN  f' = IF ~Flushes(f) \/ blocked THEN s
                ELSE NotifyAll([s EXCEPT !.coords = IF @ = "Raw" THEN "Derived" ELSE "Raw"])

SetMode ==
    /\ ~f.active /\ May("turns")
    /\ \E m \in Tables \ {f.mode} : f' = IF Flushes(f) THEN [After(f) EXCEPT !.mode = m] ELSE After(f)

\* _recipe_operation.
Add ==
    /\ ~f.active /\ Len(Rows(f)) < MaxRows /\ May("ops")
    /\ f' = IF Flushes(f) THEN Added(After(f)) ELSE After(f)
Duplicate ==
    /\ ~f.active /\ Len(Rows(f)) \in 1 .. MaxRows - 1 /\ May("ops")
    /\ f' = IF Flushes(f) THEN Duplicated(After(f)) ELSE After(f)
RemoveRow ==
    /\ ~f.active /\ Rows(f) # <<>> /\ May("ops")
    /\ f' = IF Flushes(f) THEN Removed(After(f)) ELSE After(f)
Select ==
    /\ UNCHANGED left
    /\ \E i \in DOMAIN Rows(f) \ {f.selected[f.mode]} : f' = [f EXCEPT !.selected[f.mode] = i]

\* start, until the form has been read; and the end of the run.
Invalid(s) == s.errors[s.mode] # {} \/ (s.mode = "transport" /\ s.ratioError)
Launch ==
    /\ ~f.active /\ May("launches")
    /\ f' = IF Flushes(f) /\ ~Invalid(After(f)) THEN [After(f) EXCEPT !.active = TRUE] ELSE After(f)
Release == f.active /\ f' = [f EXCEPT !.active = FALSE] /\ UNCHANGED left

Idle == UNCHANGED vars
Next ==
    \/ Type \/ Leave \/ Choose \/ Detail \/ SetRatio \/ SetUseVds \/ SetCoordinates \/ SetMode
    \/ Add \/ Duplicate \/ RemoveRow \/ Select \/ Launch \/ Release \/ Idle

Spec == Init /\ [][Next]_vars

-----------------------------------------------------------------------------
Uids(m) == {r.uid : r \in Range(f.rows[m])}

\* An error is at the row whose input was refused, and at no other, whatever rows
\* have been added, duplicated and removed since (_shift_row_errors).
ErrorsFollow ==
    \A m \in Tables : {<<f.rows[m][e[1]].uid, e[2]>> : e \in f.errors[m]} = {x \in f.refused : x[1] \in Uids(m)}

\* What is typed can be committed: its row exists and its cell is there to be edited,
\* so that no draft nobody sees keeps the form from being used.
DraftsReachable ==
    \A m \in Tables : \A d \in Range(f.drafts[m]) :
        m = f.mode /\ d.uid \in Uids(m) /\ Editable(f, Position(f, d.uid), d.c)

\* An input that was refused in its row can be corrected there, so that no error nobody
\* sees keeps a run from being started.  (One refused in the details of the row leaves no
\* draft to be flushed, and a later choice may hide its cell and keep the error: `pane`.)
ErrorsReachable ==
    \A e \in f.errors[f.mode] :
        Editable(f, e[1], e[2]) \/ <<f.rows[f.mode][e[1]].uid, e[2]>> \in f.pane

\* The cells on the screen show what the rows hold.
ShowsRows ==
    f.shown[f.mode] = [u \in Uids(f.mode) |-> Cells(f, Position(f, u))]

FormSound == ErrorsFollow /\ DraftsReachable /\ ErrorsReachable /\ ShowsRows

\* A row's values change only by what was typed or chosen in its own cells: an edit of
\* another row, of the ratio or of the coordinates leaves what is entered as it was.
Entered(s, m) == Stored[m] \cup (IF m = "transport" THEN {"vtg", "vbg"} ELSE {})
EditsStay ==
    \A m \in Tables : \A i \in DOMAIN f.rows[m], j \in DOMAIN f'.rows[m] :
        LET row == f.rows[m][i]
            new == f'.rows[m][j]
        IN  row.uid = new.uid /\ f.mode = m /\ f'.mode = m =>
              \A c \in Entered(f, m) :
                 (m = "transport" => ~ReadOnly(f, c) /\ ~ReadOnly(f', c) /\ f.ratio # 0 /\ f'.ratio # 0) =>
                    \/ Value(f, row, c) = Value(f', new, c)
                    \/ <<Value(f', new, c)>> = DraftOf(f, row.uid, c)
                    \/ c = "choice" \/ left'.details # left.details

\* A run is started with what is on the screen.
StartsAsShown ==
    ~f.active /\ f'.active =>
        /\ f'.drafts[f'.mode] = <<>> /\ f'.errors[f'.mode] = {}
        /\ \A i \in DOMAIN Rows(f) : \A c \in DOMAIN f.shown[f.mode][Rows(f)[i].uid] :
              LET cell == f.shown[f.mode][Rows(f)[i].uid][c]
                  typed == IF cell.draft = <<>> THEN cell.value ELSE cell.draft[1]
                  gate(k) == f.shown[f.mode][Rows(f)[i].uid][k].draft # <<>>
              IN  Value(f', Rows(f')[i], c) = typed
                  \/ (cell.readOnly /\ \E k \in DOMAIN f.shown[f.mode][Rows(f)[i].uid] : gate(k))

FormStep == EditsStay /\ StartsAsShown
=============================================================================
