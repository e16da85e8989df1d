---------------------------- MODULE GroupOverlay ----------------------------
(* The proxy groups of a subscription and what the user makes of them: the   *)
(* overlay of custom, hidden and patched groups kept per subscription, the   *)
(* rules kept for all of them, and config.yaml generated from both.  A       *)
(* command of the user is held to a strict merge; a refresh, a switch or a   *)
(* rule command regenerates by a tolerant one, which drops what upstream no  *)
(* longer has.  The commands that edit a group learn the active subscription *)
(* in a first critical section and work in a second: another process may     *)
(* switch, refresh or edit in between.                                       *)
(*                                                                           *)
(* A list of members is a set, of proxies and of providers (`use`) alike;    *)
(* prepend and append are one function of the custom groups by name.  The    *)
(* overlay of override.yaml and DNS are left out, and so is the selection    *)
(* that a delete unpins after it released the lock (see SelectionMirror).    *)
EXTENDS Naturals, FiniteSets, Functions

CONSTANTS Procs, Subs,        \* processes; subscription ids
          Groups, Nodes, Providers,   \* names upstream or the user may give
          Direct, Reject,     \* the built-in policies that matter
          Contents,           \* what a subscription may hold
          Initial,            \* what each holds at the start
          Definitions,        \* the groups the user may define
          Targets, Ruled,     \* what the user's rules may target, and do at the start
          None,
          Limit               \* bounds: how often what may happen, by kind

Builtins == {Direct, Reject}
Items == Groups \cup Nodes \cup Providers \cup Builtins
Defined == [kind : {"relay", "select"}, members : SUBSET Items]

ASSUME NamesAssumption ==
  /\ Groups \cap (Nodes \cup Providers \cup Builtins) = {}
  /\ Nodes \cap (Providers \cup Builtins) = {} /\ Providers \cap Builtins = {}
  /\ Direct # Reject /\ None \notin Subs
  /\ Targets \subseteq Groups \cup Nodes /\ Ruled \subseteq Targets
  /\ Definitions \subseteq Defined
ASSUME ContentsAssumption ==
  /\ \A c \in Contents :
        /\ c.nodes \subseteq Nodes /\ c.providers \subseteq Providers
        /\ DOMAIN c.groups \subseteq Groups
        /\ \A g \in DOMAIN c.groups : c.groups[g] \in Defined
        /\ c.rules \subseteq Groups \cup Nodes
  /\ Initial \in [Subs -> Contents]
ASSUME BoundsAssumption ==
  Limit \in [{"command", "upstream", "rule", "fault"} -> Nat]

VARIABLES cache,     \* the subscription files
          active,    \* the active subscription
          overlay,   \* the groups overlay of each subscription
          rules,     \* the targets of rules.yaml
          config,    \* config.yaml
          ps,        \* the subscription a command of the process works on, or None
          said,      \* what the last command reported as done, or None
          count      \* what has happened so far, by kind

vars == <<cache, active, overlay, rules, config, ps, said, count>>

(***************************************************************************)
(* The merge.                                                              *)
(***************************************************************************)
NoGroups == [g \in {} |-> None]
Plain == [custom |-> NoGroups, hidden |-> {}, patches |-> NoGroups]

With(f, k, v) == [i \in DOMAIN f \cup {k} |-> IF i = k THEN v ELSE f[i]]
Without(f, k) == Restrict(f, DOMAIN f \ {k})

PatchOf(ov, g) ==
  IF g \in DOMAIN ov.patches THEN ov.patches[g] ELSE [add |-> {}, remove |-> {}]

Shown(ov, c) == DOMAIN c.groups \ ov.hidden

\* What the overlay makes of the groups of content c, before any check.
Drafted(ov, c) ==
  [g \in Shown(ov, c) \cup DOMAIN ov.custom |->
     IF g \in DOMAIN ov.custom THEN ov.custom[g]
     ELSE LET patch == PatchOf(ov, g)
          IN [c.groups[g] EXCEPT !.members = (@ \ patch.remove) \cup patch.add]]

Acyclic(G) ==
  \A S \in (SUBSET DOMAIN G) \ {{}} : \E g \in S : G[g].members \cap S = {}

Known(G, c) == DOMAIN G \cup c.nodes \cup Builtins
Stale(G, c, g) == (G[g].members \ Providers) \ Known(G, c)

\* Upstream's own groups are ones the Core loads: a file it refuses is restored.
ASSUME LoadableAssumption ==
  \A c \in Contents :
    /\ \A g \in DOMAIN c.groups :
         /\ c.groups[g].members # {}
         /\ c.groups[g].members \subseteq Known(c.groups, c) \cup Providers
         /\ c.groups[g].kind = "relay" => Direct \notin c.groups[g].members
    /\ Acyclic(c.groups)

\* What both modes of the merge demand.
Mergeable(ov, c) ==
  LET G == Drafted(ov, c)
  IN /\ Shown(ov, c) \cap DOMAIN ov.custom = {}
     /\ \A g \in DOMAIN G :
          /\ G[g].members \cap Providers \subseteq c.providers
          /\ G[g].kind = "relay" => G[g].members \cap Builtins = {}
     /\ Acyclic(G)

\* What only the commands of the user are held to (MergeMode::ActiveStrict).
Strict(ov, c) ==
  /\ Mergeable(ov, c)
  /\ \A g \in Shown(ov, c) : PatchOf(ov, g).add \cap PatchOf(ov, g).remove = {}
  /\ \A g \in DOMAIN Drafted(ov, c) :
        /\ Stale(Drafted(ov, c), c, g) = {}
        /\ Drafted(ov, c)[g].members # {}

\* Mutant: a relay without members is given the direct way out too.
FallbackDirect(kind) == {Direct}

Fallback(kind) == IF kind = "relay" THEN {Reject} ELSE {Direct}

\* Mutant: one stale member costs a group all of them.
ToleratedNone(ov, c) ==
  LET G == Drafted(ov, c)
  IN [g \in DOMAIN G |-> [G[g] EXCEPT
        !.members = IF Stale(G, c, g) # {} THEN Fallback(G[g].kind) ELSE @]]

\* MergeMode::PassiveTolerant: stale members are dropped, and a group that
\* has none left is given one that fits its kind.
Tolerated(ov, c) ==
  LET G == Drafted(ov, c)
      Kept(g) == G[g].members \ Stale(G, c, g)
  IN [g \in DOMAIN G |-> [G[g] EXCEPT
        !.members = IF Kept(g) = {} THEN Fallback(G[g].kind) ELSE Kept(g)]]

Generable(ov, c) == ov = Plain \/ Mergeable(ov, c)

Routed(t, G, c) == IF t \in Known(G, c) \cup c.providers THEN t ELSE Direct

Generated(ov, c, targets) ==
  LET G == IF ov = Plain THEN c.groups ELSE Tolerated(ov, c)
  IN [groups |-> G, nodes |-> c.nodes,
      routes |-> [t \in targets \cup c.rules |-> Routed(t, G, c)]]

(***************************************************************************)
(* Commands.                                                               *)
(***************************************************************************)
Init ==
  /\ cache = Initial
  /\ active \in Subs
  /\ overlay = [s \in Subs |-> Plain]
  /\ rules = Ruled
  /\ config = Generated(Plain, Initial[active], Ruled)
  /\ ps = [p \in Procs |-> None]
  /\ said = None
  /\ count = [kind \in DOMAIN Limit |-> 0]

\* The end of every command that changed a file config.yaml is generated
\* from: either it is generated and accepted, or the process dies, or fails
\* to resolve the Core after the file was saved, and leaves the old one.
\* (When the merge or the Core refuses, every file is restored: no step.)
Finish(kind, report) ==
  /\ count[kind] < Limit[kind]
  /\ \/ /\ Generable(overlay'[active'], cache'[active'])
        /\ config' = Generated(overlay'[active'], cache'[active'], rules')
        /\ count' = [count EXCEPT ![kind] = @ + 1]
        /\ said' = report
     \/ /\ count.fault < Limit["fault"]
        /\ count' = [count EXCEPT ![kind] = @ + 1, !.fault = @ + 1]
        /\ said' = None
        /\ UNCHANGED config

\* `group edit|add|remove|delete|reset` up to the release of the first lock;
\* what is asked for is read in the second section only.
Begin(p) ==
  /\ ps[p] = None
  /\ count.command < Limit["command"]
  /\ ps' = [ps EXCEPT ![p] = active]
  /\ said' = None
  /\ UNCHANGED <<cache, active, overlay, rules, config, count>>

\* The command refuses, or fails and restores what it wrote.
GiveUp(p) ==
  /\ ps[p] # None
  /\ ps' = [ps EXCEPT ![p] = None]
  /\ said' = None
  /\ UNCHANGED <<cache, active, overlay, rules, config, count>>

\* The second critical section: the overlay of the subscription that was
\* active then, judged against its file now, and config.yaml of the one that
\* is active now.
Save(p, ov, report) ==
  /\ Strict(ov, cache[ps[p]])
  /\ overlay' = [overlay EXCEPT ![ps[p]] = ov]
  /\ ps' = [ps EXCEPT ![p] = None]
  /\ UNCHANGED <<cache, active, rules>>
  /\ Finish("command", report)

Report(op, g, arg) == [op |-> op, group |-> g, arg |-> arg]

Overlay(p) == overlay[ps[p]]
Content(p) == cache[ps[p]]

\* A native group is replaced by hiding it behind a custom one.
Replaced(ov, g, d) ==
  IF g \in DOMAIN ov.custom
  THEN [ov EXCEPT !.custom = With(@, g, d)]
  ELSE [custom |-> With(ov.custom, g, d),
        hidden |-> ov.hidden \cup {g},
        patches |-> Without(ov.patches, g)]

Edit(p, g, d) ==
  /\ ps[p] # None
  /\ g \in DOMAIN Overlay(p).custom \cup DOMAIN Content(p).groups
  /\ Save(p, Replaced(Overlay(p), g, d), Report("edit", g, d))

Repatched(ov, g, patch) ==
  [ov EXCEPT !.patches =
     IF patch.add \cup patch.remove = {} THEN Without(@, g) ELSE With(@, g, patch)]

\* Mutant: an addition leaves the recorded removal of the member.
AddingOnly(patch, own, m) ==
  [patch EXCEPT !.add = IF m \in own THEN @ ELSE @ \cup {m}]

\* An addition takes back the removal of the same member.
Adding(patch, own, m) ==
  [add |-> IF m \in own THEN patch.add ELSE patch.add \cup {m},
   remove |-> patch.remove \ {m}]

\* A removal takes back the addition of the same member, or else is recorded.
Removing(patch, m) ==
  IF m \in patch.add THEN [patch EXCEPT !.add = @ \ {m}]
  ELSE [patch EXCEPT !.remove = @ \cup {m}]

AddMember(p, g, m) ==
  LET ov == Overlay(p)
      c == Content(p)
      patch == PatchOf(ov, g)
  IN /\ ps[p] # None
     /\ m \in Providers => m \in c.providers
     /\ \/ /\ g \in DOMAIN c.groups \ DOMAIN ov.custom
           /\ m \notin (c.groups[g].members \cup patch.add) \ patch.remove
           /\ Save(p, Repatched(ov, g, Adding(patch, c.groups[g].members, m)), Report("add", g, m))
        \/ /\ g \in DOMAIN ov.custom
           /\ Strict(ov, c)
           /\ m \notin ov.custom[g].members
           /\ Save(p, [ov EXCEPT !.custom[g].members = @ \cup {m}], Report("add", g, m))

RemoveMember(p, g, m) ==
  LET ov == Overlay(p)
      c == Content(p)
      patch == PatchOf(ov, g)
  IN /\ ps[p] # None
     /\ \/ /\ g \in DOMAIN c.groups \ DOMAIN ov.custom
           /\ m \in patch.add \cup c.groups[g].members
           /\ Save(p, Repatched(ov, g, Removing(patch, m)), Report("remove", g, m))
        \/ /\ g \in DOMAIN ov.custom
           /\ Strict(ov, c)
           /\ m \in ov.custom[g].members
           /\ Save(p, [ov EXCEPT !.custom[g].members = @ \ {m}], Report("remove", g, m))

\* Mutant: the rules are not asked.
BlockedByGroups(ov, c, g) ==
  \/ Strict(ov, c)
     /\ \E h \in DOMAIN Drafted(ov, c) \ {g} : g \in Drafted(ov, c)[h].members
  \/ \E h \in DOMAIN ov.patches \ {g} : g \in ov.patches[h].add

\* What forbids to delete g: a rule, a group that has it as a member (none is
\* found when the strict merge fails), a patch that adds it to another group.
Blocked(ov, c, g) ==
  \/ g \in rules
  \/ Strict(ov, c)
     /\ \E h \in DOMAIN Drafted(ov, c) \ {g} : g \in Drafted(ov, c)[h].members
  \/ \E h \in DOMAIN ov.patches \ {g} : g \in ov.patches[h].add

Delete(p, g) ==
  LET ov == Overlay(p)
      c == Content(p)
      native == g \in DOMAIN c.groups
  IN /\ ps[p] # None
     /\ ~Blocked(ov, c, g)
     /\ g \in DOMAIN ov.custom \cup DOMAIN c.groups
     /\ Save(p, [custom |-> Without(ov.custom, g),
                 hidden |-> IF native THEN ov.hidden \cup {g} ELSE ov.hidden,
                 patches |-> IF native THEN Without(ov.patches, g) ELSE ov.patches],
             Report("delete", g, None))

\* `reset`: what hides, replaces or patches a native group goes.
Restored(ov, g) ==
  [custom |-> Without(ov.custom, g),
   hidden |-> ov.hidden \ {g},
   patches |-> Without(ov.patches, g)]

Reset(p, g) ==
  /\ ps[p] # None
  /\ g \in DOMAIN Content(p).groups
  /\ g \in DOMAIN Overlay(p).patches \cup Overlay(p).hidden
  /\ Save(p, Restored(Overlay(p), g), Report("reset", g, None))

\* `group create` keeps the lock from its first look to the end.
Create(g, d) ==
  LET ov == overlay[active]
      c == cache[active]
      made == [ov EXCEPT !.custom = With(@, g, d)]
  IN /\ Strict(ov, c)
     /\ g \notin DOMAIN Drafted(ov, c) \cup DOMAIN c.groups
     /\ Strict(made, c)
     /\ overlay' = [overlay EXCEPT ![active] = made]
     /\ UNCHANGED <<cache, active, rules, ps>>
     /\ Finish("command", None)

(***************************************************************************)
(* What else changes the files config.yaml is generated from.              *)
(***************************************************************************)
\* `rule add` looks for its target in config.yaml, as it is.
RuleAdd(t) ==
  /\ t \notin rules
  /\ t \in DOMAIN config.groups \cup config.nodes
  /\ rules' = rules \cup {t}
  /\ UNCHANGED <<cache, active, overlay, ps>>
  /\ Finish("rule", None)

RuleRemove(t) ==
  /\ t \in rules
  /\ rules' = rules \ {t}
  /\ UNCHANGED <<cache, active, overlay, ps>>
  /\ Finish("rule", None)

\* `rule import` looks for no target; `rule clear` leaves none.  A rules.yaml that is
\* spoilt by hand counts as one without rules wherever groups are judged or merged.
RuleReplace ==
  /\ rules' \in {Targets, {}} \ {rules}
  /\ UNCHANGED <<cache, active, overlay, ps>>
  /\ Finish("rule", None)

\* Upstream has changed, and the change was downloaded.
Refresh(s) ==
  /\ \E c \in Contents \ {cache[s]} : cache' = [cache EXCEPT ![s] = c]
  /\ UNCHANGED <<active, overlay, rules, ps>>
  /\ Finish("upstream", None)

Switch(s) ==
  /\ s # active
  /\ active' = s
  /\ UNCHANGED <<cache, overlay, rules, ps>>
  /\ Finish("upstream", None)

Next ==
  \/ \E p \in Procs : Begin(p) \/ GiveUp(p)
  \/ \E p \in Procs, g \in Groups :
       \/ Delete(p, g) \/ Reset(p, g)
       \/ \E d \in Definitions : Edit(p, g, d)
       \/ \E m \in Items : AddMember(p, g, m) \/ RemoveMember(p, g, m)
  \/ \E g \in Groups, d \in Definitions : Create(g, d)
  \/ \E t \in Targets : RuleAdd(t) \/ RuleRemove(t)
  \/ RuleReplace
  \/ \E s \in Subs : Refresh(s) \/ Switch(s)

Spec == Init /\ [][Next]_vars


(***************************************************************************)
(* Properties.                                                             *)
(***************************************************************************)
TypeOK ==
  /\ cache \in [Subs -> Contents]
  /\ active \in Subs
  /\ rules \subseteq Targets
  /\ ps \in [Procs -> Subs \cup {None}]
  /\ \A s \in Subs :
       /\ overlay[s].hidden \subseteq Groups
       /\ \A g \in DOMAIN overlay[s].custom : overlay[s].custom[g] \in Defined
       /\ \A g \in DOMAIN overlay[s].patches :
            overlay[s].patches[g] \in [add : SUBSET Items, remove : SUBSET Items]
  /\ \A kind \in DOMAIN Limit : count[kind] \in 0..Limit[kind]

\* Whatever upstream, the user and the faults have done to the files, what
\* config.yaml holds is one the Core can load and no relay is opened: no group
\* without members, no unknown member, no cycle, no rule without its target,
\* and no relay that the tolerant merge itself (groups.rs:532-549) gave a
\* direct way out.
GroupsSound ==
  LET G == config.groups
      known == DOMAIN G \cup config.nodes \cup Builtins
  IN /\ \A g \in DOMAIN G :
          /\ G[g].members # {}
          /\ G[g].members \subseteq known \cup Providers
          /\ G[g].kind = "relay" => Direct \notin G[g].members
     /\ Acyclic(G)
     /\ \A t \in DOMAIN config.routes : config.routes[t] \in known

\* "Incremental configuration is not lost when the subscription is updated"
\* (docs/user-guide/nodes.md): as long as nothing failed, what the user made
\* of the active subscription's groups is in config.yaml, as far as it still
\* exists, through every refresh and switch away and back.
IncrementsKept ==
  LET ov == overlay[active]
      c == cache[active]
      G == config.groups
      known == DOMAIN G \cup c.nodes \cup Builtins \cup Providers
  IN count.fault = 0 =>
       /\ \A g \in DOMAIN ov.custom :
            /\ g \in DOMAIN G /\ G[g].kind = ov.custom[g].kind
            /\ ov.custom[g].members \cap known \subseteq G[g].members
       /\ ov.hidden \cap DOMAIN G \subseteq DOMAIN ov.custom
       /\ \A g \in DOMAIN ov.patches \cap Shown(ov, c) :
            /\ ov.patches[g].add \cap known \subseteq G[g].members
            /\ ov.patches[g].remove \cap G[g].members \subseteq Fallback(G[g].kind)

\* No command on groups, not even one that works on a subscription that is no
\* longer active, takes the target away from a rule of the user, under any of
\* the subscriptions: what `group delete` refuses for (main.rs:16568-16599).
Lost(s) == rules \ Known(Drafted(overlay[s], cache[s]), cache[s])

NoReroute ==
  [][overlay' # overlay => \A s \in Subs : Lost(s)' \subseteq Lost(s)]_vars

\* A command on a group that reports success has done what it says to the
\* config.yaml it regenerated, whatever edits, refreshes and edits of others
\* came before.  Not so, and left out here: a subscription that is no longer
\* active; a hidden native group, which is patched and stays hidden; and the
\* removal of a member that a patch added and upstream has come to list too.
TakesEffect ==
  LET r == said'
      G == config'.groups
      ov == overlay[active]
      native == r.group \in Shown(ov, cache[active])
      twice == IF native
               THEN PatchOf(ov, r.group).add \cap cache[active].groups[r.group].members
               ELSE {}
  IN CASE r.op = "edit" -> r.group \in DOMAIN G /\ G[r.group] = r.arg
       [] r.op = "delete" -> r.group \notin DOMAIN G
       [] r.op = "reset" -> r.group \in DOMAIN G /\ G[r.group] = cache[active].groups[r.group]
       [] r.op \in {"add", "remove"} /\ r.group \notin DOMAIN Drafted(ov, cache[active]) -> TRUE
       [] r.op = "add" /\ r.group \in DOMAIN Drafted(ov, cache[active]) -> r.arg \in G[r.group].members
       [] r.op = "remove" /\ r.group \in DOMAIN Drafted(ov, cache[active]) ->
            r.arg \notin G[r.group].members \ twice

AcceptedTakesEffect ==
  [][said' # None /\ (\E p \in Procs : ps[p] = active /\ ps'[p] = None) => TakesEffect]_vars
=============================================================================
