----------------------------- MODULE LinkTable ------------------------------
(***************************************************************************)
(* What the link store promises to everyone who reads it: a table in which *)
(* a slug, once taken, is one resource of one kind for ever, whose rows are *)
(* inserted, edited and switched off and on one whole row at a time, and   *)
(* never carry a stamp of the future.  LinkStore implements it; the public *)
(* and admin readers rely on it.                                           *)
(***************************************************************************)
EXTENDS LinkRows

CONSTANT MaxNow     \* bound: the last instant of the clock

VARIABLES links,    \* the table: slug -> Row, or NoRow
          now       \* the wall clock (now_millis), which never goes back here

tableVars == <<links, now>>

TableInit ==
    /\ links = [s \in Slugs |-> NoRow]
    /\ now = 0

(* What one row may become.                                                *)
(*   Born: a new row is enabled, of exactly one kind, stamped once.        *)
Born(row, at) ==
    /\ row \in Row
    /\ (row.text = Null) # (row.target = Null)
    /\ row.disabled = Null
    /\ row.created = row.updated
    /\ row.updated <= at

(*   Edited: content, label or expiry change; identity, kind, creation     *)
(*   time and the disabled mark do not.                                    *)
Edited(old, row, at) ==
    /\ row \in Row
    /\ row.id = old.id /\ row.created = old.created
    /\ row.disabled = old.disabled
    /\ (row.text = Null) = (old.text = Null)
    /\ (row.target = Null) = (old.target = Null)
    /\ row.updated <= at

(*   Switched: off or on, and nothing else.                                *)
Switched(old, row, at) ==
    /\ row \in Row
    /\ row = [old EXCEPT !.disabled = row.disabled, !.updated = row.updated]
    /\ row.disabled \in {row.updated, Null}
    /\ row.updated <= at

(* One slug's row changes, and no other's.                                 *)
Insert(s) == links[s] = NoRow /\ Born(links'[s], now)
Edit(s) == links[s] # NoRow /\ Edited(links[s], links'[s], now)
Switch(s) == links[s] # NoRow /\ Switched(links[s], links'[s], now)

Write(s) ==
    /\ Insert(s) \/ Edit(s) \/ Switch(s)
    /\ links' = [links EXCEPT ![s] = links'[s]]
    /\ UNCHANGED now

Tick == now < MaxNow /\ now' = now + 1 /\ UNCHANGED links

TableNext == Tick \/ \E s \in Slugs : Write(s)

TableSpec == TableInit /\ [][TableNext]_tableVars
=============================================================================
