---------------------------- MODULE MCDeployment ----------------------------
(***************************************************************************)
(* Deployment with two containers, two owners, four receipts and the       *)
(* databases that alembic and create_all of every release leave.           *)
(***************************************************************************)
EXTENDS Deployment

CONSTANTS ann, bob, milk, bread, kiwi, oat

\* create_all makes the tables that are not there, with the columns of its release.
CreateAll(k, objects) ==
    objects \cup {o \in Upto(k) : ~ \E there \in objects : there[1] = o[1]}

ALine(id, receipt, user, txt, date, product) ==
    [id |-> id, receipt |-> receipt, user |-> user, text |-> txt,
     store |-> IF receipt = 4 THEN Nothing ELSE kiwi, date |-> date, product |-> product]

\* Ann's milk has a global product in one receipt and none in others.
MCLines == {
    ALine(1, 1, ann, milk, 2, oat),
    ALine(4, 1, ann, bread, 2, Nothing),
    ALine(3, 2, bob, milk, Nothing, Nothing),
    ALine(5, 2, bob, bread, 1, oat),
    ALine(2, 3, ann, bread, 1, Nothing),
    ALine(7, 3, ann, milk, 1, Nothing),
    ALine(6, 4, ann, milk, 1, Nothing)}

MCOrigins == {{1}, {1, 2, 4}}

Alembic(k) == [Nowhere EXCEPT !.objects = Upto(k), !.version = k]
Bare(objects) == [Nowhere EXCEPT !.objects = objects]

MCDatabases ==
    {Alembic(k) : k \in 0..HeadRevision}
    \cup {Bare(CreateAll(k, {})) : k \in {2, 3, 5, 6, 7, 9, 12}}
    \cup {Bare(CreateAll(12, Upto(k))) : k \in {1, 3, 5, 6, 9, 10}}
    \cup {Bare(CreateAll(5, Upto(3))), Bare(Creates(1) \cup Creates(3))}
    \cup {[Bare(Upto(k)) EXCEPT !.torn = {<<"users", 1>>}] : k \in {1, 12}}
=============================================================================
