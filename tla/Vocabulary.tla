----------------------------- MODULE Vocabulary -----------------------------
(***************************************************************************)
(* The model and source vocabularies (internal/panels/config/models.json   *)
(* and sources.json) as scripts/capture_usage_series.py admits them, and   *)
(* the fold of a recorded model identity onto a member a source may carry. *)
(*                                                                         *)
(* A member is declared as [key, slot, ids, prefix]; a model document is   *)
(* [residual, groups] with groups a sequence of [key, members].            *)
(***************************************************************************)
EXTENDS Journal, FiniteSets, Functions

CONSTANTS
  Residual,   \* the key of the residual member
  Rest        \* [Ident -> what follows its first segment, itself if nothing does]

Keys(entries) == [i \in DOMAIN entries |-> entries[i].key]
Distinct(s) == IsInjective(s)
Members(document) ==
  FoldLeft(LAMBDA all, group : all \o group.members, <<>>, document.groups)

\* load_model_vocabulary: a key, a slot of a group and an identifier belong
\* to one member; the residual is nobody's name.
AdmittedVocabulary(document) ==
  LET all == Members(document) IN
  /\ document.residual.slot = 0 /\ document.residual.ids = {} /\ ~document.residual.prefix
  /\ document.groups # <<>> /\ Distinct(Keys(document.groups))
  /\ Distinct(<<document.residual.key>> \o Keys(all))
  /\ \A i \in DOMAIN document.groups :
       LET members == document.groups[i].members IN
       /\ members # <<>>
       /\ Distinct([j \in DOMAIN members |-> members[j].slot])
       /\ \A j \in DOMAIN members : members[j].slot > 0
  /\ \A i, j \in DOMAIN all : i # j => all[i].ids \cap all[j].ids = {}

\* What is loaded of it: what an identifier names, the keys that may follow a
\* vendor's segment, the members of a group.
LoadModelVocabulary(document) ==
  LET all == Members(document) IN
  [names  |-> [id \in UNION {all[i].ids : i \in DOMAIN all} |->
                 (CHOOSE i \in DOMAIN all : id \in all[i].ids)],
   keys   |-> Keys(all),
   prefix |-> {all[i].key : i \in {j \in DOMAIN all : all[j].prefix}},
   groups |-> [g \in Range(Keys(document.groups)) |->
                 LET i == CHOOSE j \in DOMAIN document.groups : document.groups[j].key = g
                 IN Range(Keys(document.groups[i].members))]]

\* load_source_vocabulary: a source is declared once, under a group there is.
AdmittedSources(sources, v) ==
  Distinct(Keys(sources)) /\ \A i \in DOMAIN sources : sources[i].vendor \in DOMAIN v.groups

\* The members one source may carry: its own group's, and the residual.
ModelScope(v, sources, source) ==
  {Residual} \cup UNION {v.groups[sources[i].vendor] : i \in {j \in DOMAIN sources : sources[j].key = source}}

\* What an identity names: exactly, or by what follows its first segment.
ModelKey(v, id) ==
  CASE id \in DOMAIN v.names -> v.keys[v.names[id]]
    [] id \notin DOMAIN v.names /\ Rest[id] \in v.prefix -> Rest[id]
    [] OTHER -> Residual

\* A member of another vendor is the residual's.
ScopedKey(v, scope, id) == IF ModelKey(v, id) \in scope THEN ModelKey(v, id) ELSE Residual

\* attributed_model: every identity a record may hold, under one vocabulary.
Attribution(v, scope) == [id \in Ident |-> ScopedKey(v, scope, id)]

\* scoped_history, daily_series: a split by identity folded onto the scope.
Folded(at, scope, split) ==
  [key \in scope |-> SumFunctionOnSet(split, {id \in Ident : at[id] = key})]
=============================================================================
