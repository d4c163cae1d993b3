--------------------------- MODULE MCOrderApproval ---------------------------
(* Small instances of OrderApproval for TLC. *)
EXTENDS OrderApproval

CONSTANTS ann, bob, cat, manager, security

Base == [owner |-> ann, admins |-> {}, grms |-> {<<bob, manager>>, <<cat, security>>},
         levels |-> {manager, security}, autoApproval |-> FALSE, orchestrated |-> FALSE]

\* Two levels signed by two people; one person who holds a level and the default
\* role; an owner who holds every level; a single-level order; a role without an
\* approver id; a group that approves by itself; an installed approval action.
MCConfigs ==
    {Base,
     [Base EXCEPT !.grms = {<<bob, manager>>, <<bob, Approver>>, <<cat, security>>}],
     [Base EXCEPT !.grms = {<<ann, manager>>, <<ann, security>>, <<bob, manager>>}],
     [Base EXCEPT !.grms = {<<bob, Approver>>}, !.levels = {}],
     [Base EXCEPT !.levels = {manager}],
     [Base EXCEPT !.autoApproval = TRUE, !.admins = {cat}],
     [Base EXCEPT !.orchestrated = TRUE]}

\* Nobody of the group holds a level of the order, or its owner holds the only
\* role of the group and the order asks for one more.
UncoveredLevel ==
    {[Base EXCEPT !.grms = {<<bob, Approver>>, <<cat, Approver>>}, !.levels = {manager}],
     [Base EXCEPT !.grms = {<<ann, manager>>}]}

\* One approver, one role: the smallest group.
SingleLevel == {[Base EXCEPT !.grms = {<<bob, Approver>>}, !.levels = {}]}
=============================================================================
