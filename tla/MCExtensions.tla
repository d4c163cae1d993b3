---------------------------- MODULE MCExtensions ----------------------------
(* Small instances of the five components.  A behaviour belongs to one of them,  *)
(* its part, while the others rest: they share nothing.                          *)
EXTENDS Extensions, ContentActions, TLC

CONSTANTS f1, f2, x1, x2, c1, c2   \* x1 and x2 are two orders, jobs or requests

VARIABLE part

(* Approval hooks: costs below and above half the quota, and close to its end *)

MCPlugins == {"two_user", "multi_group", "hierarchical", "threshold", "below_rate"}
MCGroupsOf ==
    "fin" :> {"Finance"} @@ "it" :> {"IT"} @@ "lead" :> {"Finance", "IT"} @@ "boss" :> {}
-----------------------------------------------------------------------------
(* Users of the directory: groups at the top, below another and absent; roles in *)
(* one group, in several, in two that are mapped to one.                         *)

MCGroups == {"Gold", "Silver", "Bronze", "Default Group", "a", "b"}
MCTrees ==
    {[g \in MCGroups |-> IF g \in absent THEN "Absent" ELSE "Top"] :
       absent \in {{"a", "b"}, {"a", "Gold", "Default Group"}}}
MCMapping ==
    "ops" :> [cb_group |-> "Gold", roles |-> {"approvers"}] @@
    "dev" :> [cb_group |-> "Gold", roles |-> {"requestors"}] @@
    "qa" :> [cb_group |-> "Silver", roles |-> {}]
MCFirstRoles == {"u" :> {<<"Gold", "approvers">>, <<"a", "user_admins">>} @@ "v" :> {}}
MCRecords ==
    "u" :> {[ou |-> <<"a">>, memberOf |-> {"CB-Requestors", "CB-GroupManagers", "approvers", "ops"}],
            [ou |-> <<"a", "b">>, memberOf |-> {"CB-ResourceManagers", "Requesters-Gold", "CB-Admins",
                                                "ops", "dev"}],
            [ou |-> <<"b">>, memberOf |-> {"no memberOf"}],
            [ou |-> <<"a">>, memberOf |-> {"Qa", "qa", "viewers"}]} @@
    "v" :> {[ou |-> <<>>, memberOf |-> {"no record"}],
            [ou |-> <<>>, memberOf |-> {"CB-Approvers", "CB-Admins", "qa"}]}
-----------------------------------------------------------------------------
(* Upgrade tools: a plug-in with related constructs, and an empty one *)

Related ==
    {{"import url", "url(r'')", "url('')"},
     {"import force_text", "force_text (call)", "import ugettext as _"},
     {"import six", "six.text_type", "six.moves"},
     {"NullBooleanField()", "models.NullBooleanField()", "serializers.NullBooleanField()",
      "serializers.NullBooleanField"},
     {"import LooseVersion", "LooseVersion (call)", "collections.Set"},
     {"import utc", "utc (use)", "django.utils.timezone.utc"},
     {"typing.Dict", "import Dict", "import imp"}}

MCFirstContents == {f1 :> c @@ f2 :> {} : c \in UNION {SUBSET constructs : constructs \in Related}}
MCEdits == f1 :> {{"MemcachedCache"}} @@ f2 :> {}
MCFlatName == f1 :> 1 @@ f2 :> 2
MCSeconds == 0..1
-----------------------------------------------------------------------------
(* Management actions: up to two contents, or a content and a row, at first *)

MCFilled ==
    LET places == SUBSET (Containers \X Names) IN
    {at \in [contents : places, rows : places] :
       Cardinality(at.rows) <= 1 /\ Cardinality(at.contents) + Cardinality(at.rows) <= 2}
-----------------------------------------------------------------------------
Parts == {"hooks", "users", "tools", "store", "configs"}

\* A part that rests is in one of its initial states.
Resting ==
    /\ part = "hooks" \/ (plugin = "two_user" /\ order = [o \in Orders |->
         [status |-> "CART", approvers |-> {}, queue |-> "anybody", cost |-> 4]])
    /\ part = "users" \/ (hook = "default" /\ tree = [g \in Groups |-> IF g \in {"a", "b"} THEN "Absent" ELSE "Top"]
                          /\ directory = [u \in Accounts |-> CHOOSE r \in Records[u] : TRUE])
    /\ part = "tools" \/ disk = [f \in Files |-> {}]
    /\ part = "store" \/ (family = Gcp /\ store = [a \in Store!Addresses |-> Store!Nothing]
                          /\ rows = [a \in Store!Addresses |-> 0])

PartInit == part \in Parts /\ Resting /\ AllInit

PartNext ==
    /\ UNCHANGED part
    /\ \/ part = "tools" /\ ToolsStep
       \/ part = "hooks" /\ HooksStep
       \/ part = "users" /\ UsersStep
       \/ part = "store" /\ StoreStep
       \/ part = "configs" /\ ConfigsStep

PartSpec == PartInit /\ [][PartNext]_<<part, allVars>>

Alike == Permutations({x1, x2})
=============================================================================
