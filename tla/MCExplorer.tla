----------------------------- MODULE MCExplorer -----------------------------
\* A small app: a home page, a list that drifts between two states with one title,
\* another list of the same structure, an untitled page, a form, and a page of another app.
EXTENDS Explorer, TLC

CONSTANTS home, list, drifted, rows, plain, form, foreign, target, other

MCPages == {home, list, drifted, rows, plain, form, foreign}
MCTitleOf == (home :> "Home" @@ list :> "List" @@ drifted :> "List"
              @@ rows :> "Rows" @@ plain :> None @@ form :> "Form" @@ foreign :> "Web")
MCStructOf == [p \in MCPages |-> IF p \in {drifted, rows} THEN list ELSE p]
MCAppOf == [p \in MCPages |-> IF p = foreign THEN other ELSE target]
MCLeads == (home :> {list, foreign} @@ list :> {drifted, rows, form, plain} @@ drifted :> {home, foreign}
            @@ rows :> {drifted} @@ plain :> {home} @@ form :> {} @@ foreign :> {plain})
MCOffers == [p \in MCPages |-> IF p = home THEN {2} ELSE {1}]
MCLinks == {<<1, 2>>}
MCBudgeted == {<<2, 1>>}
MCOptions == [android : BOOLEAN, strategy : Strategies]
=============================================================================
