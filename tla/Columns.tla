------------------------------- MODULE Columns -------------------------------
(***************************************************************************)
(* The columns of a list of the Windows client (Client/ListCtrlEx1.cpp),    *)
(* which the user shows and hides.  Each column knows its place in the      *)
(* header; the handlers that paint and sort find the column by its place    *)
(* (GetColumnID).  Which columns are shown is kept in a string while the    *)
(* list shows another view and while the client does not run.               *)
(***************************************************************************)
EXTENDS Integers, FiniteSets, Sequences, SequencesExt

CONSTANTS
    Table,       \* the columns of the view as insert_bottom_columns lists them: [id, show]
    Confs        \* strings a profile may hold: sets of [id, order, show]

VARIABLES
    columns,     \* m_columns: id -> [order, index], index -1 when hidden
    header,      \* the columns of the list control, by place, as the user sees them
    conf         \* what Conf() last returned

vars == <<columns, header, conf>>

Hidden == -1
Shown(c) == c.index # Hidden

\* ShowColumn: a column is put before those of a higher order.  The list
\* control puts a column whose index is past the end at the end.
ShowAt(cols, id) ==
    LET right == {j \in DOMAIN cols : Shown(cols[j]) /\ cols[j].order > cols[id].order}
        count == Cardinality({j \in DOMAIN cols : Shown(cols[j])})
        index == CHOOSE k \in {cols[j].index : j \in right} \cup {count} :
                    \A j \in right : k <= cols[j].index
    IN  [j \in DOMAIN cols |->
           IF j = id THEN [cols[j] EXCEPT !.index = index]
           ELSE IF j \in right THEN [cols[j] EXCEPT !.index = @ + 1]
           ELSE cols[j]]

Hide(cols, id) ==
    [j \in DOMAIN cols |->
       IF j = id THEN [cols[j] EXCEPT !.index = Hidden]
       ELSE IF cols[j].index > cols[id].index THEN [cols[j] EXCEPT !.index = @ - 1]
       ELSE cols[j]]

\* The list control: a column comes in at its index, or goes.
PutIn(head, cols, id) == InsertAt(head, cols[id].index + 1, id)
TakeOut(head, id) == SelectSeq(head, LAMBDA j : j # id)

GetColumnID(cols, k) ==
    LET found == {j \in DOMAIN cols : cols[j].index = k}
    IN  IF found = {} THEN -1 ELSE CHOOSE j \in found : \A i \in found : j <= i

-----------------------------------------------------------------------------
\* InsertColumn: the order is that of the table, unless the string has another.
Inserted(state, e, m_conf) ==
    LET saved == {c \in m_conf : c.id = e.id}
        row == IF saved = {} THEN [id |-> e.id, order |-> Cardinality(DOMAIN state.cols), show |-> e.show]
                             ELSE CHOOSE c \in saved : TRUE
        cols == [j \in DOMAIN state.cols \cup {e.id} |->
                   IF j = e.id THEN [order |-> row.order, index |-> Hidden] ELSE state.cols[j]]
        after == ShowAt(cols, e.id)
    IN  IF row.show THEN [cols |-> after, head |-> PutIn(state.head, after, e.id)]
                    ELSE [cols |-> cols, head |-> state.head]

\* DeleteAllColumns, Conf(v) and InsertColumn for every row of the table.
Filled(m_conf) ==
    LET at[k \in 0..Len(Table)] ==
          IF k = 0 THEN [cols |-> << >>, head |-> << >>] ELSE Inserted(at[k - 1], Table[k], m_conf)
    IN  at[Len(Table)]

\* Conf()
Conf == {[id |-> j, order |-> columns[j].order, show |-> Shown(columns[j])] : j \in DOMAIN columns}

-----------------------------------------------------------------------------
Init == \E c \in Confs : /\ conf = c
                         /\ columns = Filled(c).cols
                         /\ header = Filled(c).head

\* OnCommand: the user chooses a column of the menu.
Toggle(id) ==
    /\ IF Shown(columns[id])
       THEN /\ columns' = Hide(columns, id)
            /\ header' = TakeOut(header, id)
       ELSE /\ columns' = ShowAt(columns, id)
            /\ header' = PutIn(header, columns', id)
    /\ UNCHANGED conf

\* set_bottom_view to another view and back, or a restart of the client.
Rebuild ==
    /\ conf' = Conf
    /\ columns' = Filled(Conf).cols
    /\ header' = Filled(Conf).head

Next == Rebuild \/ \E id \in DOMAIN columns : Toggle(id)
Spec == Init /\ [][Next]_vars

-----------------------------------------------------------------------------
\* The column that the handlers find at a place is the one the user sees there
\* (ShowColumn, GetColumnID), none is there twice, and the list is the same
\* after it was built anew from the string, unless that of another version made
\* two orders the same (Conf, InsertColumn).
ColumnsExact ==
    /\ \A k \in 0..(Len(Table) - 1) :
         GetColumnID(columns, k) = IF k < Len(header) THEN header[k + 1] ELSE -1
    /\ \A j \in DOMAIN columns : Shown(columns[j]) <=> \E k \in DOMAIN header : header[k] = j
    /\ (\A i, j \in DOMAIN columns : columns[i].order = columns[j].order => i = j)
         => Filled(Conf).head = header
=============================================================================
