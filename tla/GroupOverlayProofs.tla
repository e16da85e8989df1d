------------------------- MODULE GroupOverlayProofs -------------------------
(***************************************************************************)
(* What is generated is sound, what the user made of a subscription is     *)
(* kept, no command takes a rule its target, and an accepted edit is in    *)
(* the result: for any subscriptions, groups, nodes, rules, definitions,   *)
(* contents, processes and faults.                                         *)
(***************************************************************************)
EXTENDS GroupOverlay, TLAPS

Patches == [add : SUBSET Items, remove : SUBSET Items]

\* An overlay, and what its operations keep true of it: a patch does not remove
\* what it adds.
Groupings(F) == DOMAIN F \subseteq Groups /\ F = [g \in DOMAIN F |-> F[g]]
OverlayOK(ov) ==
  /\ ov = [custom |-> ov.custom, hidden |-> ov.hidden, patches |-> ov.patches]
  /\ Groupings(ov.custom) /\ Groupings(ov.patches) /\ ov.hidden \subseteq Groups
  /\ \A g \in DOMAIN ov.custom : ov.custom[g] \in Defined
  /\ \A g \in DOMAIN ov.patches :
       ov.patches[g] \in Patches /\ ov.patches[g].add \cap ov.patches[g].remove = {}

OverlaysOK == overlay = [s \in Subs |-> overlay[s]] /\ \A s \in Subs : OverlayOK(overlay[s])
CountOK == count \in [DOMAIN Limit -> Nat] /\ \A kind \in DOMAIN Limit : count[kind] <= Limit[kind]
Shaped ==
  /\ cache \in [Subs -> Contents] /\ active \in Subs
  /\ rules \subseteq Targets /\ ps \in [Procs -> Subs \cup {None}]
  /\ OverlaysOK
Typed == Shaped /\ CountOK

\* config.yaml was generated from some overlay, file and rules; unless something
\* failed, from those there are now.
Made ==
  \E ov : \E c \in Contents, targets \in SUBSET Targets :
    OverlayOK(ov) /\ Generable(ov, c) /\ config = Generated(ov, c, targets)
Current ==
  count.fault = 0 =>
    /\ Generable(overlay[active], cache[active])
    /\ config = Generated(overlay[active], cache[active], rules)

Inv == Typed /\ Made /\ Current

-----------------------------------------------------------------------------
(* The merge.                                                              *)

LEMMA NamesApart ==
  /\ Groups \cap Nodes = {} /\ Groups \cap Providers = {} /\ Groups \cap Builtins = {}
  /\ Nodes \cap Providers = {} /\ Nodes \cap Builtins = {} /\ Providers \cap Builtins = {}
BY NamesAssumption

\* What a subscription holds.
LEMMA Listing ==
  ASSUME NEW c \in Contents
  PROVE  /\ c.nodes \subseteq Nodes /\ c.providers \subseteq Providers
         /\ DOMAIN c.groups \subseteq Groups /\ c.rules \subseteq Groups \cup Nodes
         /\ \A g \in DOMAIN c.groups : c.groups[g] \in Defined
BY ContentsAssumption

LEMMA PatchTyped ==
  ASSUME NEW ov, OverlayOK(ov), NEW g
  PROVE  /\ PatchOf(ov, g) \in Patches /\ PatchOf(ov, g).add \cap PatchOf(ov, g).remove = {}
BY DEF OverlayOK, PatchOf, Patches

\* The groups the overlay makes.
LEMMA DraftedGroups ==
  ASSUME NEW ov, OverlayOK(ov), NEW c \in Contents
  PROVE  /\ DOMAIN Drafted(ov, c) = Shown(ov, c) \cup DOMAIN ov.custom
         /\ DOMAIN Drafted(ov, c) \subseteq Groups
         /\ \A g \in DOMAIN ov.custom : Drafted(ov, c)[g] = ov.custom[g]
         /\ \A g \in Shown(ov, c) \ DOMAIN ov.custom :
              /\ Drafted(ov, c)[g].kind = c.groups[g].kind
              /\ Drafted(ov, c)[g].members
                   = (c.groups[g].members \ PatchOf(ov, g).remove) \cup PatchOf(ov, g).add
         /\ \A g \in DOMAIN Drafted(ov, c) : Drafted(ov, c)[g] \in Defined
<1>1. DOMAIN Drafted(ov, c) = Shown(ov, c) \cup DOMAIN ov.custom
  BY DEF Drafted
<1>2. DOMAIN Drafted(ov, c) \subseteq Groups
  BY <1>1, Listing DEF Shown, OverlayOK, Groupings
<1>3. \A g \in DOMAIN ov.custom : Drafted(ov, c)[g] = ov.custom[g]
  BY <1>1 DEF Drafted
<1>4. ASSUME NEW g \in Shown(ov, c) \ DOMAIN ov.custom
      PROVE  /\ Drafted(ov, c)[g].kind = c.groups[g].kind
             /\ Drafted(ov, c)[g].members
                  = (c.groups[g].members \ PatchOf(ov, g).remove) \cup PatchOf(ov, g).add
             /\ Drafted(ov, c)[g] \in Defined
  <2>1. c.groups[g] \in Defined
    BY Listing DEF Shown
  <2>2. PICK m : m = (c.groups[g].members \ PatchOf(ov, g).remove) \cup PatchOf(ov, g).add
    OBVIOUS
  <2>3. m \in SUBSET Items
    BY <2>1, <2>2, PatchTyped DEF Defined, Patches
  <2>4. Drafted(ov, c)[g] = [c.groups[g] EXCEPT !.members = m]
    BY <1>1, <2>2 DEF Drafted
  <2> QED BY <2>1, <2>2, <2>3, <2>4 DEF Defined
<1> QED BY <1>1, <1>2, <1>3, <1>4 DEF OverlayOK

\* What the tolerant merge leaves of a group.
Left(ov, c, g) == Drafted(ov, c)[g].members \ Stale(Drafted(ov, c), c, g)

LEMMA ToleratedGroups ==
  ASSUME NEW ov, OverlayOK(ov), NEW c \in Contents
  PROVE  /\ DOMAIN Tolerated(ov, c) = DOMAIN Drafted(ov, c)
         /\ \A g \in DOMAIN Drafted(ov, c) :
              /\ Left(ov, c, g)
                   = Drafted(ov, c)[g].members \cap (Known(Drafted(ov, c), c) \cup Providers)
              /\ Tolerated(ov, c)[g].kind = Drafted(ov, c)[g].kind
              /\ Left(ov, c, g) = {} =>
                   Tolerated(ov, c)[g].members = Fallback(Drafted(ov, c)[g].kind)
              /\ Left(ov, c, g) # {} => Tolerated(ov, c)[g].members = Left(ov, c, g)
<1>1. DOMAIN Tolerated(ov, c) = DOMAIN Drafted(ov, c)
  BY DEF Tolerated
<1>2. ASSUME NEW g \in DOMAIN Drafted(ov, c)
      PROVE  /\ Left(ov, c, g)
                  = Drafted(ov, c)[g].members \cap (Known(Drafted(ov, c), c) \cup Providers)
             /\ Tolerated(ov, c)[g].kind = Drafted(ov, c)[g].kind
             /\ Left(ov, c, g) = {} =>
                  Tolerated(ov, c)[g].members = Fallback(Drafted(ov, c)[g].kind)
             /\ Left(ov, c, g) # {} => Tolerated(ov, c)[g].members = Left(ov, c, g)
  <2>1. Drafted(ov, c)[g] \in Defined
    BY <1>2, DraftedGroups
  <2>2. PICK left : left = Left(ov, c, g)
    OBVIOUS
  <2>3. PICK m : m = IF left = {} THEN Fallback(Drafted(ov, c)[g].kind) ELSE left
    OBVIOUS
  <2>4. Tolerated(ov, c)[g] = [Drafted(ov, c)[g] EXCEPT !.members = m]
    BY <1>2, <2>2, <2>3 DEF Tolerated, Left
  <2>5. left = Drafted(ov, c)[g].members \cap (Known(Drafted(ov, c), c) \cup Providers)
    BY <2>2 DEF Left, Stale
  <2>6. /\ Tolerated(ov, c)[g].kind = Drafted(ov, c)[g].kind
        /\ Tolerated(ov, c)[g].members = m
    BY <2>1, <2>4 DEF Defined
  <2> QED BY <2>2, <2>3, <2>4, <2>5, <2>6
<1> QED BY <1>1, <1>2

\* A strict merge leaves nothing to tolerate.
LEMMA StrictIsDrafted ==
  ASSUME NEW ov, OverlayOK(ov), NEW c \in Contents, Strict(ov, c),
         NEW g \in DOMAIN Drafted(ov, c)
  PROVE  Tolerated(ov, c)[g] = Drafted(ov, c)[g]
<1>1. Left(ov, c, g) = Drafted(ov, c)[g].members /\ Left(ov, c, g) # {}
  BY DEF Left, Strict
<1>2. Drafted(ov, c)[g] \in Defined
  BY DraftedGroups
<1>3. Tolerated(ov, c)[g] = [Drafted(ov, c)[g] EXCEPT !.members = Drafted(ov, c)[g].members]
  BY <1>1 DEF Tolerated, Left
<1> QED BY <1>2, <1>3 DEF Defined

-----------------------------------------------------------------------------
(* Edits of an overlay.                                                    *)

Names(ov, c) == Shown(ov, c) \cup DOMAIN ov.custom

LEMMA WithFacts ==
  ASSUME NEW f, NEW k \in Groups, NEW v, Groupings(f)
  PROVE  /\ Groupings(With(f, k, v)) /\ DOMAIN With(f, k, v) = DOMAIN f \cup {k}
         /\ With(f, k, v)[k] = v /\ \A g \in DOMAIN f \ {k} : With(f, k, v)[g] = f[g]
BY DEF With, Groupings

LEMMA WithoutFacts ==
  ASSUME NEW f, NEW k, Groupings(f)
  PROVE  /\ Groupings(Without(f, k)) /\ DOMAIN Without(f, k) = DOMAIN f \ {k}
         /\ \A g \in DOMAIN f \ {k} : Without(f, k)[g] = f[g]
BY DEF Without, Restrict, Groupings

LEMMA Assembled ==
  ASSUME NEW custom, NEW hidden, NEW patches, Groupings(custom), Groupings(patches),
         hidden \subseteq Groups, \A g \in DOMAIN custom : custom[g] \in Defined,
         \A g \in DOMAIN patches : patches[g] \in Patches /\ patches[g].add \cap patches[g].remove = {}
  PROVE  OverlayOK([custom |-> custom, hidden |-> hidden, patches |-> patches])
BY DEF OverlayOK

LEMMA PlainTyped == OverlayOK(Plain)
<1>1. Groupings(NoGroups)
  BY DEF Groupings, NoGroups
<1>2. DOMAIN NoGroups = {}
  BY DEF NoGroups
<1> QED BY <1>1, <1>2, Assembled DEF Plain

LEMMA Parts ==
  ASSUME NEW ov, OverlayOK(ov)
  PROVE  /\ Groupings(ov.custom) /\ Groupings(ov.patches)
         /\ \A g \in DOMAIN ov.custom : ov.custom[g] \in Defined
         /\ \A g \in DOMAIN ov.patches :
              ov.patches[g] \in Patches /\ ov.patches[g].add \cap ov.patches[g].remove = {}
BY DEF OverlayOK

LEMMA ReplacedTyped ==
  ASSUME NEW ov, OverlayOK(ov), NEW g \in Groups, NEW d \in Defined
  PROVE  /\ OverlayOK(Replaced(ov, g, d))
         /\ Replaced(ov, g, d).custom = With(ov.custom, g, d)
         /\ Replaced(ov, g, d).hidden = IF g \in DOMAIN ov.custom THEN ov.hidden ELSE ov.hidden \cup {g}
<1>1. /\ Groupings(With(ov.custom, g, d))
      /\ \A h \in DOMAIN With(ov.custom, g, d) : With(ov.custom, g, d)[h] \in Defined
  <2>1. PICK f : f = ov.custom
    OBVIOUS
  <2>2. Groupings(f) /\ \A h \in DOMAIN f : f[h] \in Defined
    BY <2>1, Parts
  <2>3. PICK w : w = With(f, g, d)
    OBVIOUS
  <2>4. /\ Groupings(w) /\ DOMAIN w = DOMAIN f \cup {g} /\ w[g] = d
        /\ \A h \in DOMAIN f \ {g} : w[h] = f[h]
    BY <2>2, <2>3 DEF With, Groupings
  <2> QED BY <2>1, <2>2, <2>3, <2>4
<1>2. /\ Groupings(Without(ov.patches, g))
      /\ \A h \in DOMAIN Without(ov.patches, g) :
           /\ Without(ov.patches, g)[h] \in Patches
           /\ Without(ov.patches, g)[h].add \cap Without(ov.patches, g)[h].remove = {}
  <2>1. PICK f : f = ov.patches
    OBVIOUS
  <2>2. Groupings(f) /\ \A h \in DOMAIN f : f[h] \in Patches /\ f[h].add \cap f[h].remove = {}
    BY <2>1, Parts
  <2>3. PICK w : w = Without(f, g)
    OBVIOUS
  <2>4. /\ Groupings(w) /\ DOMAIN w = DOMAIN f \ {g}
        /\ \A h \in DOMAIN f \ {g} : w[h] = f[h]
    BY <2>2, <2>3, WithoutFacts
  <2> QED BY <2>1, <2>2, <2>3, <2>4
<1>3. CASE g \in DOMAIN ov.custom
  <2>1. PICK c : c = With(ov.custom, g, d)
    OBVIOUS
  <2>2. Replaced(ov, g, d) = [ov EXCEPT !.custom = c]
    BY <1>3, <2>1 DEF Replaced
  <2>3. Replaced(ov, g, d) = [custom |-> c, hidden |-> ov.hidden, patches |-> ov.patches]
    BY <2>2 DEF OverlayOK
  <2>4. OverlayOK([custom |-> c, hidden |-> ov.hidden, patches |-> ov.patches])
    BY <1>1, <2>1, Assembled DEF OverlayOK
  <2> QED BY <1>3, <2>1, <2>3, <2>4
<1>4. CASE g \notin DOMAIN ov.custom
  <2>1. Replaced(ov, g, d) = [custom |-> With(ov.custom, g, d), hidden |-> ov.hidden \cup {g},
                              patches |-> Without(ov.patches, g)]
    BY <1>4 DEF Replaced
  <2>2. OverlayOK(Replaced(ov, g, d))
    BY <1>1, <1>2, <2>1, Assembled DEF OverlayOK
  <2> QED BY <1>4, <2>1, <2>2
<1> QED BY <1>3, <1>4

LEMMA RepatchedTyped ==
  ASSUME NEW ov, OverlayOK(ov), NEW g \in Groups, NEW patch \in Patches,
         patch.add \cap patch.remove = {}
  PROVE  LET new == Repatched(ov, g, patch)
         IN /\ OverlayOK(new)
            /\ new.custom = ov.custom /\ new.hidden = ov.hidden
            /\ PatchOf(new, g) = patch
            /\ \A h \in Groups \ {g} : PatchOf(new, h) = PatchOf(ov, h)
<1>1. PICK f : f = ov.patches
  OBVIOUS
<1>2. Groupings(f) /\ \A h \in DOMAIN f : f[h] \in Patches /\ f[h].add \cap f[h].remove = {}
  BY <1>1, Parts
<1>3. PICK t : t = IF patch.add \cup patch.remove = {} THEN Without(f, g) ELSE With(f, g, patch)
  OBVIOUS
<1>4. Repatched(ov, g, patch) = [ov EXCEPT !.patches = t]
  BY <1>1, <1>3 DEF Repatched
<1>5. Repatched(ov, g, patch) = [custom |-> ov.custom, hidden |-> ov.hidden, patches |-> t]
  BY <1>4 DEF OverlayOK
<1>6. CASE patch.add \cup patch.remove = {}
  <2>1. t = Without(f, g)
    BY <1>3, <1>6
  <2>2. /\ Groupings(t) /\ DOMAIN t = DOMAIN f \ {g}
        /\ \A h \in DOMAIN f \ {g} : t[h] = f[h]
    BY <1>2, <2>1 DEF Without, Restrict, Groupings
  <2>3. patch = [add |-> {}, remove |-> {}]
    BY <1>6 DEF Patches
  <2>4. OverlayOK(Repatched(ov, g, patch))
    BY <1>2, <1>5, <2>2, Assembled DEF OverlayOK
  <2> QED BY <1>1, <1>5, <2>2, <2>3, <2>4 DEF PatchOf
<1>7. CASE patch.add \cup patch.remove # {}
  <2>1. t = With(f, g, patch)
    BY <1>3, <1>7
  <2>2. /\ Groupings(t) /\ DOMAIN t = DOMAIN f \cup {g} /\ t[g] = patch
        /\ \A h \in DOMAIN f \ {g} : t[h] = f[h]
    BY <1>2, <2>1 DEF With, Groupings
  <2>3. OverlayOK(Repatched(ov, g, patch))
    BY <1>2, <1>5, <2>2, Assembled DEF OverlayOK
  <2> QED BY <1>1, <1>5, <2>2, <2>3 DEF PatchOf
<1> QED BY <1>6, <1>7

LEMMA PatchEdits ==
  ASSUME NEW patch \in Patches, patch.add \cap patch.remove = {}, NEW own, NEW m \in Items
  PROVE  /\ Adding(patch, own, m) \in Patches
         /\ Adding(patch, own, m).add \cap Adding(patch, own, m).remove = {}
         /\ Removing(patch, m) \in Patches
         /\ Removing(patch, m).add \cap Removing(patch, m).remove = {}
<1>1. PICK a : a = IF m \in own THEN patch.add ELSE patch.add \cup {m}
  OBVIOUS
<1>2. PICK r : r = patch.remove \ {m}
  OBVIOUS
<1>3. Adding(patch, own, m) = [add |-> a, remove |-> r]
  BY <1>1, <1>2 DEF Adding
<1>4. a \in SUBSET Items /\ r \in SUBSET Items /\ a \cap r = {}
  BY <1>1, <1>2 DEF Patches
<1>5. CASE m \in patch.add
  <2>1. PICK b : b = patch.add \ {m}
    OBVIOUS
  <2>2. Removing(patch, m) = [patch EXCEPT !.add = b]
    BY <1>5, <2>1 DEF Removing
  <2> QED BY <1>3, <1>4, <2>1, <2>2 DEF Patches
<1>6. CASE m \notin patch.add
  <2>1. PICK b : b = patch.remove \cup {m}
    OBVIOUS
  <2>2. Removing(patch, m) = [patch EXCEPT !.remove = b]
    BY <1>6, <2>1 DEF Removing
  <2> QED BY <1>3, <1>4, <1>6, <2>1, <2>2 DEF Patches
<1> QED BY <1>5, <1>6

\* A member added to or removed from a custom group.
LEMMA RegroupedTyped ==
  ASSUME NEW ov, OverlayOK(ov), NEW g \in DOMAIN ov.custom, NEW ms \in SUBSET Items
  PROVE  /\ OverlayOK([ov EXCEPT !.custom[g].members = ms])
         /\ DOMAIN [ov EXCEPT !.custom[g].members = ms].custom = DOMAIN ov.custom
         /\ [ov EXCEPT !.custom[g].members = ms].hidden = ov.hidden
         /\ [ov EXCEPT !.custom[g].members = ms].custom[g].members = ms
<1>1. ov.custom[g] \in Defined /\ Groupings(ov.custom)
  BY DEF OverlayOK
<1>2. PICK d : d = [ov.custom[g] EXCEPT !.members = ms]
  OBVIOUS
<1>3. d \in Defined /\ d.members = ms
  BY <1>1, <1>2 DEF Defined
<1>4. PICK c : c = [ov.custom EXCEPT ![g] = d]
  OBVIOUS
<1>5. /\ DOMAIN c = DOMAIN ov.custom /\ c[g] = d /\ \A h \in DOMAIN ov.custom \ {g} : c[h] = ov.custom[h]
      /\ Groupings(c)
  BY <1>1, <1>4 DEF Groupings
<1>6. \A h \in DOMAIN c : c[h] \in Defined
  BY <1>3, <1>5 DEF OverlayOK
<1>7. [ov EXCEPT !.custom[g].members = ms] = [ov EXCEPT !.custom = c]
  BY <1>2, <1>4
<1>8. [ov EXCEPT !.custom = c] = [custom |-> c, hidden |-> ov.hidden, patches |-> ov.patches]
  BY DEF OverlayOK
<1>9. OverlayOK([custom |-> c, hidden |-> ov.hidden, patches |-> ov.patches])
  BY <1>5, <1>6, Assembled DEF OverlayOK
<1> QED BY <1>3, <1>5, <1>7, <1>8, <1>9

-----------------------------------------------------------------------------
(* The soundness of what is generated.                                     *)

LEMMA ToleratedIsSound ==
  ASSUME NEW ov, OverlayOK(ov), NEW c \in Contents, Mergeable(ov, c)
  PROVE  LET G == Tolerated(ov, c)
         IN /\ \A g \in DOMAIN G :
                 /\ G[g].members # {}
                 /\ G[g].members \subseteq Known(G, c) \cup Providers
                 /\ G[g].kind = "relay" => Direct \notin G[g].members
            /\ Acyclic(G)
<1>1. PICK G : G = Tolerated(ov, c)
  OBVIOUS
<1>2. PICK D : D = Drafted(ov, c)
  OBVIOUS
<1>3. DOMAIN G = DOMAIN D /\ DOMAIN D \subseteq Groups
  BY <1>1, <1>2, ToleratedGroups, DraftedGroups
<1>4. ASSUME NEW g \in DOMAIN D
      PROVE  /\ G[g].kind = D[g].kind
             /\ \/ /\ G[g].members # {}
                   /\ G[g].members = D[g].members \cap (Known(D, c) \cup Providers)
                \/ G[g].members = Fallback(D[g].kind)
  <2>1. /\ Left(ov, c, g) = D[g].members \cap (Known(D, c) \cup Providers)
        /\ G[g].kind = D[g].kind
        /\ Left(ov, c, g) = {} => G[g].members = Fallback(D[g].kind)
        /\ Left(ov, c, g) # {} => G[g].members = Left(ov, c, g)
    <3>1. g \in DOMAIN Drafted(ov, c)
      BY <1>2, <1>4
    <3>2. /\ Left(ov, c, g) = Drafted(ov, c)[g].members \cap (Known(Drafted(ov, c), c) \cup Providers)
          /\ Tolerated(ov, c)[g].kind = Drafted(ov, c)[g].kind
          /\ Left(ov, c, g) = {} => Tolerated(ov, c)[g].members = Fallback(Drafted(ov, c)[g].kind)
          /\ Left(ov, c, g) # {} => Tolerated(ov, c)[g].members = Left(ov, c, g)
      BY <3>1, ToleratedGroups
    <3> QED BY <1>1, <1>2, <3>2
  <2> QED BY <2>1
<1>5. \A kind : Fallback(kind) \in SUBSET Builtins /\ Fallback(kind) # {}
  BY DEF Fallback, Builtins
<1>6. Known(G, c) = Known(D, c) /\ Builtins \subseteq Known(D, c)
  BY <1>3 DEF Known
<1>7. ASSUME NEW g \in DOMAIN D
      PROVE  /\ G[g].members # {}
             /\ G[g].members \subseteq Known(G, c) \cup Providers
             /\ G[g].members \subseteq D[g].members \cup Builtins
  BY <1>4, <1>5, <1>6, <1>7
<1>8. ASSUME NEW g \in DOMAIN D, G[g].kind = "relay"
      PROVE  Direct \notin G[g].members
  <2>1. D[g].kind = "relay"
    BY <1>4, <1>8
  <2>2. D[g].members \cap Builtins = {}
    BY <1>2, <2>1 DEF Mergeable
  <2>3. Direct \notin Fallback("relay") /\ Direct \in Builtins
    BY NamesAssumption DEF Fallback, Builtins
  <2>4. Direct \notin D[g].members
    BY <2>2, <2>3
  <2> QED BY <1>4, <2>1, <2>3, <2>4
<1>9. ASSUME NEW S \in (SUBSET DOMAIN G) \ {{}}
      PROVE  \E g \in S : G[g].members \cap S = {}
  <2>1. PICK g \in S : D[g].members \cap S = {}
    BY <1>2, <1>3 DEF Mergeable, Acyclic
  <2>2. S \cap Builtins = {}
    BY <1>3, NamesApart
  <2> QED BY <1>3, <1>7, <2>1, <2>2
<1> QED BY <1>1, <1>3, <1>7, <1>8, <1>9 DEF Acyclic

LEMMA GeneratedIsSound ==
  ASSUME NEW ov, OverlayOK(ov), NEW c \in Contents, Generable(ov, c), NEW targets \in SUBSET Targets,
         config = Generated(ov, c, targets)
  PROVE  GroupsSound
<1>1. PICK G : G = config.groups
  OBVIOUS
<1>2. G = IF ov = Plain THEN c.groups ELSE Tolerated(ov, c)
  BY <1>1 DEF Generated
<1>3. config.nodes = c.nodes
  BY DEF Generated
<1>4. /\ \A g \in DOMAIN G :
           /\ G[g].members # {}
           /\ G[g].members \subseteq Known(G, c) \cup Providers
           /\ G[g].kind = "relay" => Direct \notin G[g].members
      /\ Acyclic(G)
  <2>1. CASE ov = Plain
    <3>1. G = c.groups
      BY <1>2, <2>1
    <3> QED BY <3>1, LoadableAssumption DEF Acyclic, Known
  <2>2. CASE ov # Plain
    <3>1. G = Tolerated(ov, c) /\ Mergeable(ov, c)
      BY <1>2, <2>2 DEF Generable
    <3> QED BY <3>1, ToleratedIsSound
  <2> QED BY <2>1, <2>2
<1>5. config.routes = [t \in targets \cup c.rules |-> Routed(t, G, c)]
  BY <1>1 DEF Generated
<1>6. ASSUME NEW t \in DOMAIN config.routes
      PROVE  config.routes[t] \in Known(G, c)
  <2>1. t \in targets \cup c.rules /\ config.routes[t] = Routed(t, G, c)
    BY <1>5
  <2>2. t \notin c.providers
    BY <2>1, Listing, NamesAssumption
  <2>3. Direct \in Known(G, c)
    BY DEF Known, Builtins
  <2> QED BY <2>1, <2>2, <2>3 DEF Routed
<1>7. Known(G, c) = DOMAIN G \cup config.nodes \cup Builtins
  BY <1>3 DEF Known
<1> QED BY <1>1, <1>4, <1>6, <1>7 DEF GroupsSound

-----------------------------------------------------------------------------
(* The commands that edit a group.                                         *)

\* What every one of them does: it saves a new overlay, under which no rule has
\* lost a group that it had.
Keeps(p, new) == rules \cap Names(Overlay(p), Content(p)) \subseteq Names(new, Content(p))
Saves(p, new, report) ==
  OverlayOK(new) /\ Keeps(p, new) /\ Save(p, new, report)

LEMMA Working ==
  ASSUME Typed, NEW p \in Procs, ps[p] # None
  PROVE  /\ ps[p] \in Subs /\ OverlayOK(Overlay(p)) /\ Content(p) \in Contents
BY DEF Typed, Shaped, OverlaysOK, Overlay, Content

LEMMA EditSaves ==
  ASSUME Typed, NEW p \in Procs, NEW g \in Groups, NEW d \in Definitions, Edit(p, g, d)
  PROVE  LET new == Replaced(Overlay(p), g, d)
         IN /\ ps[p] # None /\ Saves(p, new, Report("edit", g, d))
            /\ g \in DOMAIN new.custom /\ new.custom[g] = d
<1>1. ps[p] # None /\ Save(p, Replaced(Overlay(p), g, d), Report("edit", g, d))
  BY DEF Edit
<1>2. OverlayOK(Overlay(p)) /\ d \in Defined
  BY <1>1, Working, NamesAssumption
<1>3. PICK ov : ov = Overlay(p)
  OBVIOUS
<1>4. PICK new : new = Replaced(ov, g, d)
  OBVIOUS
<1>5. /\ OverlayOK(new) /\ new.custom = With(ov.custom, g, d)
      /\ new.hidden = IF g \in DOMAIN ov.custom THEN ov.hidden ELSE ov.hidden \cup {g}
  BY <1>2, <1>3, <1>4, ReplacedTyped
<1>6. DOMAIN new.custom = DOMAIN ov.custom \cup {g} /\ new.custom[g] = d
  BY <1>5 DEF With
<1>7. Names(ov, Content(p)) \subseteq Names(new, Content(p))
  BY <1>5, <1>6 DEF Names, Shown
<1> QED BY <1>1, <1>3, <1>4, <1>5, <1>6, <1>7 DEF Saves, Keeps

\* A patch is changed, or else the members of a custom group.
Patched(ov, c, g, new, patch) ==
  /\ g \in DOMAIN c.groups \ DOMAIN ov.custom
  /\ new.custom = ov.custom /\ new.hidden = ov.hidden /\ PatchOf(new, g) = patch
Regrouped(ov, g, new, ms) ==
  /\ g \in DOMAIN ov.custom
  /\ DOMAIN new.custom = DOMAIN ov.custom /\ new.hidden = ov.hidden
  /\ new.custom[g].members = ms

LEMMA AddSaves ==
  ASSUME Typed, NEW p \in Procs, NEW g \in Groups, NEW m \in Items, AddMember(p, g, m)
  PROVE  /\ ps[p] # None
         /\ \E new :
              /\ Saves(p, new, Report("add", g, m))
              /\ \/ Patched(Overlay(p), Content(p), g, new,
                        Adding(PatchOf(Overlay(p), g), Content(p).groups[g].members, m))
                 \/ Regrouped(Overlay(p), g, new, Overlay(p).custom[g].members \cup {m})
<1>1. ps[p] # None
  BY DEF AddMember
<1>2. PICK ov : ov = Overlay(p)
  OBVIOUS
<1>3. PICK c : c = Content(p)
  OBVIOUS
<1>4. OverlayOK(ov)
  BY <1>1, <1>2, Working
<1>5. ASSUME g \in DOMAIN c.groups \ DOMAIN ov.custom,
             Save(p, Repatched(ov, g, Adding(PatchOf(ov, g), c.groups[g].members, m)), Report("add", g, m))
      PROVE  \E new :
               /\ Saves(p, new, Report("add", g, m))
               /\ Patched(ov, c, g, new, Adding(PatchOf(ov, g), c.groups[g].members, m))
  <2>1. PICK patch : patch = Adding(PatchOf(ov, g), c.groups[g].members, m)
    OBVIOUS
  <2>2. patch \in Patches /\ patch.add \cap patch.remove = {}
    BY <1>4, <2>1, PatchTyped, PatchEdits
  <2>3. PICK new : new = Repatched(ov, g, patch)
    OBVIOUS
  <2>4. /\ OverlayOK(new) /\ new.custom = ov.custom /\ new.hidden = ov.hidden
        /\ PatchOf(new, g) = patch
    BY <1>4, <2>2, <2>3, RepatchedTyped
  <2>5. Keeps(p, new)
    BY <1>2, <2>4 DEF Keeps, Names, Shown
  <2> QED BY <1>5, <2>1, <2>3, <2>4, <2>5 DEF Saves, Patched
<1>6. ASSUME g \in DOMAIN ov.custom,
             Save(p, [ov EXCEPT !.custom[g].members = @ \cup {m}], Report("add", g, m))
      PROVE  \E new :
               /\ Saves(p, new, Report("add", g, m))
               /\ Regrouped(ov, g, new, ov.custom[g].members \cup {m})
  <2>1. PICK ms : ms = ov.custom[g].members \cup {m}
    OBVIOUS
  <2>2. g \in DOMAIN ov.custom /\ ms \in SUBSET Items
    BY <1>4, <1>6, <2>1 DEF OverlayOK, Defined
  <2>3. PICK new : new = [ov EXCEPT !.custom[g].members = ms]
    OBVIOUS
  <2>4. /\ OverlayOK(new) /\ DOMAIN new.custom = DOMAIN ov.custom /\ new.hidden = ov.hidden
        /\ new.custom[g].members = ms
    <3>1. /\ OverlayOK([ov EXCEPT !.custom[g].members = ms])
          /\ DOMAIN [ov EXCEPT !.custom[g].members = ms].custom = DOMAIN ov.custom
          /\ [ov EXCEPT !.custom[g].members = ms].hidden = ov.hidden
          /\ [ov EXCEPT !.custom[g].members = ms].custom[g].members = ms
      BY <1>4, <2>2, RegroupedTyped
    <3> QED BY <2>3, <3>1
  <2>5. Save(p, new, Report("add", g, m))
    BY <1>6, <2>1, <2>3
  <2>6. Keeps(p, new)
    BY <1>2, <2>4 DEF Keeps, Names, Shown
  <2> QED BY <1>6, <2>1, <2>4, <2>5, <2>6 DEF Saves, Regrouped
<1> QED BY <1>1, <1>2, <1>3, <1>5, <1>6 DEF AddMember

LEMMA RemoveSaves ==
  ASSUME Typed, NEW p \in Procs, NEW g \in Groups, NEW m \in Items, RemoveMember(p, g, m)
  PROVE  /\ ps[p] # None
         /\ \E new :
              /\ Saves(p, new, Report("remove", g, m))
              /\ \/ Patched(Overlay(p), Content(p), g, new, Removing(PatchOf(Overlay(p), g), m))
                 \/ Regrouped(Overlay(p), g, new, Overlay(p).custom[g].members \ {m})
<1>1. ps[p] # None
  BY DEF RemoveMember
<1>2. PICK ov : ov = Overlay(p)
  OBVIOUS
<1>3. PICK c : c = Content(p)
  OBVIOUS
<1>4. OverlayOK(ov)
  BY <1>1, <1>2, Working
<1>5. ASSUME g \in DOMAIN c.groups \ DOMAIN ov.custom,
             Save(p, Repatched(ov, g, Removing(PatchOf(ov, g), m)), Report("remove", g, m))
      PROVE  \E new :
               /\ Saves(p, new, Report("remove", g, m))
               /\ Patched(ov, c, g, new, Removing(PatchOf(ov, g), m))
  <2>1. PICK patch : patch = Removing(PatchOf(ov, g), m)
    OBVIOUS
  <2>2. patch \in Patches /\ patch.add \cap patch.remove = {}
    BY <1>4, <2>1, PatchTyped, PatchEdits
  <2>3. PICK new : new = Repatched(ov, g, patch)
    OBVIOUS
  <2>4. /\ OverlayOK(new) /\ new.custom = ov.custom /\ new.hidden = ov.hidden
        /\ PatchOf(new, g) = patch
    BY <1>4, <2>2, <2>3, RepatchedTyped
  <2>5. Keeps(p, new)
    BY <1>2, <2>4 DEF Keeps, Names, Shown
  <2> QED BY <1>5, <2>1, <2>3, <2>4, <2>5 DEF Saves, Patched
<1>6. ASSUME g \in DOMAIN ov.custom,
             Save(p, [ov EXCEPT !.custom[g].members = @ \ {m}], Report("remove", g, m))
      PROVE  \E new :
               /\ Saves(p, new, Report("remove", g, m))
               /\ Regrouped(ov, g, new, ov.custom[g].members \ {m})
  <2>1. PICK ms : ms = ov.custom[g].members \ {m}
    OBVIOUS
  <2>2. g \in DOMAIN ov.custom /\ ms \in SUBSET Items
    BY <1>4, <1>6, <2>1 DEF OverlayOK, Defined
  <2>3. PICK new : new = [ov EXCEPT !.custom[g].members = ms]
    OBVIOUS
  <2>4. /\ OverlayOK(new) /\ DOMAIN new.custom = DOMAIN ov.custom /\ new.hidden = ov.hidden
        /\ new.custom[g].members = ms
    <3>1. /\ OverlayOK([ov EXCEPT !.custom[g].members = ms])
          /\ DOMAIN [ov EXCEPT !.custom[g].members = ms].custom = DOMAIN ov.custom
          /\ [ov EXCEPT !.custom[g].members = ms].hidden = ov.hidden
          /\ [ov EXCEPT !.custom[g].members = ms].custom[g].members = ms
      BY <1>4, <2>2, RegroupedTyped
    <3> QED BY <2>3, <3>1
  <2>5. Save(p, new, Report("remove", g, m))
    BY <1>6, <2>1, <2>3
  <2>6. Keeps(p, new)
    BY <1>2, <2>4 DEF Keeps, Names, Shown
  <2> QED BY <1>6, <2>1, <2>4, <2>5, <2>6 DEF Saves, Regrouped
<1> QED BY <1>1, <1>2, <1>3, <1>5, <1>6 DEF RemoveMember

LEMMA LesserTyped ==
  ASSUME NEW ov, OverlayOK(ov), NEW g
  PROVE  /\ Groupings(Without(ov.custom, g)) /\ DOMAIN Without(ov.custom, g) = DOMAIN ov.custom \ {g}
         /\ \A h \in DOMAIN Without(ov.custom, g) : Without(ov.custom, g)[h] \in Defined
         /\ Groupings(Without(ov.patches, g)) /\ DOMAIN Without(ov.patches, g) = DOMAIN ov.patches \ {g}
         /\ \A h \in DOMAIN Without(ov.patches, g) :
              /\ Without(ov.patches, g)[h] \in Patches
              /\ Without(ov.patches, g)[h].add \cap Without(ov.patches, g)[h].remove = {}
<1>1. PICK f : f = ov.custom
  OBVIOUS
<1>2. Groupings(f) /\ \A h \in DOMAIN f : f[h] \in Defined
  BY <1>1, Parts
<1>3. /\ Groupings(Without(f, g)) /\ DOMAIN Without(f, g) = DOMAIN f \ {g}
      /\ \A h \in DOMAIN f \ {g} : Without(f, g)[h] = f[h]
  BY <1>2 DEF Without, Restrict, Groupings
<1>4. PICK t : t = ov.patches
  OBVIOUS
<1>5. Groupings(t) /\ \A h \in DOMAIN t : t[h] \in Patches /\ t[h].add \cap t[h].remove = {}
  BY <1>4, Parts
<1>6. /\ Groupings(Without(t, g)) /\ DOMAIN Without(t, g) = DOMAIN t \ {g}
      /\ \A h \in DOMAIN t \ {g} : Without(t, g)[h] = t[h]
  BY <1>5 DEF Without, Restrict, Groupings
<1> QED BY <1>1, <1>2, <1>3, <1>4, <1>5, <1>6

LEMMA DeleteSaves ==
  ASSUME Typed, NEW p \in Procs, NEW g \in Groups, Delete(p, g)
  PROVE  /\ ps[p] # None
         /\ \E new : Saves(p, new, Report("delete", g, None)) /\ g \notin Names(new, Content(p))
<1>1. ps[p] # None /\ g \notin rules
  BY DEF Delete, Blocked
<1>2. PICK ov : ov = Overlay(p)
  OBVIOUS
<1>3. PICK c : c = Content(p)
  OBVIOUS
<1>4. OverlayOK(ov) /\ c \in Contents
  BY <1>1, <1>2, <1>3, Working
<1>5. PICK custom : custom = Without(ov.custom, g)
  OBVIOUS
<1>6. PICK hidden : hidden = IF g \in DOMAIN c.groups THEN ov.hidden \cup {g} ELSE ov.hidden
  OBVIOUS
<1>7. PICK patches : patches = IF g \in DOMAIN c.groups THEN Without(ov.patches, g) ELSE ov.patches
  OBVIOUS
<1>8. PICK new : new = [custom |-> custom, hidden |-> hidden, patches |-> patches]
  OBVIOUS
<1>9. Save(p, new, Report("delete", g, None))
  BY <1>2, <1>3, <1>5, <1>6, <1>7, <1>8 DEF Delete
<1>10. /\ Groupings(custom) /\ DOMAIN custom = DOMAIN ov.custom \ {g}
       /\ \A h \in DOMAIN custom : custom[h] \in Defined
  BY <1>4, <1>5, LesserTyped
<1>11. /\ Groupings(patches)
       /\ \A h \in DOMAIN patches :
            patches[h] \in Patches /\ patches[h].add \cap patches[h].remove = {}
  <2>1. CASE g \in DOMAIN c.groups
    BY <1>4, <1>7, <2>1, LesserTyped
  <2>2. CASE g \notin DOMAIN c.groups
    BY <1>4, <1>7, <2>2, Parts
  <2> QED BY <2>1, <2>2
<1>12. hidden \subseteq Groups
  BY <1>4, <1>6 DEF OverlayOK
<1>13. OverlayOK(new)
  BY <1>8, <1>10, <1>11, <1>12, Assembled
<1>14. Names(new, c) = Names(ov, c) \ {g}
  BY <1>6, <1>8, <1>10 DEF Names, Shown
<1>15. Keeps(p, new)
  BY <1>1, <1>2, <1>3, <1>14 DEF Keeps
<1> QED BY <1>1, <1>3, <1>9, <1>13, <1>14, <1>15 DEF Saves

LEMMA ResetSaves ==
  ASSUME Typed, NEW p \in Procs, NEW g \in Groups, Reset(p, g)
  PROVE  /\ ps[p] # None
         /\ \E new :
              /\ Saves(p, new, Report("reset", g, None))
              /\ g \in Shown(new, Content(p)) \ DOMAIN new.custom
              /\ PatchOf(new, g) = [add |-> {}, remove |-> {}]
<1>1. ps[p] # None
  BY DEF Reset
<1>2. PICK ov : ov = Overlay(p)
  OBVIOUS
<1>3. PICK c : c = Content(p)
  OBVIOUS
<1>4. OverlayOK(ov) /\ c \in Contents /\ g \in DOMAIN c.groups
  BY <1>1, <1>2, <1>3, Working DEF Reset
<1>5. PICK custom : custom = Without(ov.custom, g)
  OBVIOUS
<1>6. PICK patches : patches = Without(ov.patches, g)
  OBVIOUS
<1>7. PICK new : new = [custom |-> custom, hidden |-> ov.hidden \ {g}, patches |-> patches]
  OBVIOUS
<1>8. Save(p, new, Report("reset", g, None))
  BY <1>2, <1>5, <1>6, <1>7 DEF Reset, Restored
<1>9. /\ Groupings(custom) /\ DOMAIN custom = DOMAIN ov.custom \ {g}
      /\ \A h \in DOMAIN custom : custom[h] \in Defined
      /\ Groupings(patches) /\ DOMAIN patches = DOMAIN ov.patches \ {g}
      /\ \A h \in DOMAIN patches :
           patches[h] \in Patches /\ patches[h].add \cap patches[h].remove = {}
  BY <1>4, <1>5, <1>6, LesserTyped
<1>10. ov.hidden \ {g} \subseteq Groups
  BY <1>4 DEF OverlayOK
<1>11. OverlayOK(new)
  BY <1>7, <1>9, <1>10, Assembled
<1>12. Names(ov, c) \subseteq Names(new, c) /\ g \in Shown(new, c) \ DOMAIN new.custom
  BY <1>4, <1>7, <1>9 DEF Names, Shown
<1>13. PatchOf(new, g) = [add |-> {}, remove |-> {}]
  BY <1>7, <1>9 DEF PatchOf
<1>14. Keeps(p, new)
  BY <1>2, <1>3, <1>12 DEF Keeps
<1> QED BY <1>1, <1>3, <1>8, <1>11, <1>12, <1>13, <1>14 DEF Saves

Editing(p) ==
  \E g \in Groups :
    \/ Delete(p, g) \/ Reset(p, g)
    \/ \E d \in Definitions : Edit(p, g, d)
    \/ \E m \in Items : AddMember(p, g, m) \/ RemoveMember(p, g, m)

LEMMA EditingSaves ==
  ASSUME Typed, NEW p \in Procs, Editing(p)
  PROVE  ps[p] # None /\ \E new, report : Saves(p, new, report)
<1>1. PICK g \in Groups :
        \/ Delete(p, g) \/ Reset(p, g)
        \/ \E d \in Definitions : Edit(p, g, d)
        \/ \E m \in Items : AddMember(p, g, m) \/ RemoveMember(p, g, m)
  BY DEF Editing
<1>2. CASE Delete(p, g)
  BY <1>2, DeleteSaves
<1>3. CASE Reset(p, g)
  BY <1>3, ResetSaves
<1>4. ASSUME NEW d \in Definitions, Edit(p, g, d)
      PROVE  ps[p] # None /\ \E new, report : Saves(p, new, report)
  BY <1>4, EditSaves
<1>5. ASSUME NEW m \in Items, AddMember(p, g, m)
      PROVE  ps[p] # None /\ \E new, report : Saves(p, new, report)
  BY <1>5, AddSaves
<1>6. ASSUME NEW m \in Items, RemoveMember(p, g, m)
      PROVE  ps[p] # None /\ \E new, report : Saves(p, new, report)
  BY <1>6, RemoveSaves
<1> QED BY <1>1, <1>2, <1>3, <1>4, <1>5, <1>6

LEMMA CreateMakes ==
  ASSUME Typed, NEW g \in Groups, NEW d \in Definitions, Create(g, d)
  PROVE  \E new :
           /\ OverlayOK(new) /\ Names(overlay[active], cache[active]) \subseteq Names(new, cache[active])
           /\ overlay' = [overlay EXCEPT ![active] = new]
           /\ UNCHANGED <<cache, active, rules, ps>>
           /\ Finish("command", None)
<1>1. PICK ov : ov = overlay[active]
  OBVIOUS
<1>2. OverlayOK(ov) /\ d \in Defined
  BY <1>1, NamesAssumption DEF Typed, Shaped, OverlaysOK
<1>3. PICK custom : custom = With(ov.custom, g, d)
  OBVIOUS
<1>4. /\ Groupings(custom) /\ DOMAIN custom = DOMAIN ov.custom \cup {g}
      /\ \A h \in DOMAIN custom : custom[h] \in Defined
  <2>1. PICK f : f = ov.custom
    OBVIOUS
  <2>2. Groupings(f) /\ \A h \in DOMAIN f : f[h] \in Defined
    BY <1>2, <2>1, Parts
  <2>3. custom = With(f, g, d)
    BY <1>3, <2>1
  <2>4. /\ Groupings(custom) /\ DOMAIN custom = DOMAIN f \cup {g} /\ custom[g] = d
        /\ \A h \in DOMAIN f \ {g} : custom[h] = f[h]
    BY <2>2, <2>3 DEF With, Groupings
  <2> QED BY <1>2, <2>1, <2>2, <2>4
<1>5. PICK new : new = [ov EXCEPT !.custom = custom]
  OBVIOUS
<1>6. new = [custom |-> custom, hidden |-> ov.hidden, patches |-> ov.patches]
  BY <1>2, <1>5 DEF OverlayOK
<1>7. OverlayOK(new)
  BY <1>2, <1>4, <1>6, Assembled DEF OverlayOK
<1>8. Names(ov, cache[active]) \subseteq Names(new, cache[active])
  BY <1>4, <1>6 DEF Names, Shown
<1>9. /\ overlay' = [overlay EXCEPT ![active] = new]
      /\ UNCHANGED <<cache, active, rules, ps>>
      /\ Finish("command", None)
  BY <1>1, <1>3, <1>5 DEF Create
<1> QED BY <1>1, <1>7, <1>8, <1>9

-----------------------------------------------------------------------------
(* The invariant.                                                          *)

Kinds == {"command", "upstream", "rule"}

LEMMA FinishKeeps ==
  ASSUME Typed, Made, Shaped', NEW kind \in Kinds, NEW report, Finish(kind, report)
  PROVE  CountOK' /\ Made' /\ Current'
<1>1. PICK f : f = count
  OBVIOUS
<1>2. /\ f \in [DOMAIN Limit -> Nat] /\ {kind, "fault"} \subseteq DOMAIN Limit /\ kind # "fault"
      /\ \A k \in DOMAIN Limit : f[k] \in Nat /\ Limit[k] \in Nat /\ f[k] <= Limit[k]
      /\ f[kind] < Limit[kind]
  BY <1>1, BoundsAssumption DEF Typed, CountOK, Kinds, Finish
<1>3. CASE /\ Generable(overlay'[active'], cache'[active'])
           /\ config' = Generated(overlay'[active'], cache'[active'], rules')
           /\ count' = [count EXCEPT ![kind] = @ + 1]
  <2>1. CountOK'
    <3>1. PICK n : n = count'
      OBVIOUS
    <3>2. n = [f EXCEPT ![kind] = f[kind] + 1]
      BY <1>1, <1>3, <3>1
    <3>3. n \in [DOMAIN Limit -> Nat] /\ \A k \in DOMAIN Limit : n[k] <= Limit[k]
      BY <1>2, <3>2
    <3> QED BY <3>1, <3>3 DEF CountOK
  <2>2. Current'
    BY <1>3 DEF Current
  <2>3. /\ OverlayOK(overlay'[active']) /\ cache'[active'] \in Contents
        /\ rules' \in SUBSET Targets
    BY DEF Shaped, OverlaysOK
  <2>4. Made'
    BY <1>3, <2>3 DEF Made
  <2> QED BY <2>1, <2>2, <2>4
<1>4. CASE /\ count.fault < Limit["fault"]
           /\ count' = [count EXCEPT ![kind] = @ + 1, !.fault = @ + 1]
           /\ UNCHANGED config
  <2>1. PICK n : n = count'
    OBVIOUS
  <2>2. n = [f EXCEPT ![kind] = f[kind] + 1, !["fault"] = f["fault"] + 1] /\ f["fault"] < Limit["fault"]
    BY <1>1, <1>2, <1>4, <2>1
  <2>3. n \in [DOMAIN Limit -> Nat] /\ n["fault"] = f["fault"] + 1 /\ n[kind] = f[kind] + 1
    BY <1>2, <2>2
  <2>4. \A k \in DOMAIN Limit : n[k] <= Limit[k]
    BY <1>2, <2>2, <2>3
  <2>5. CountOK'
    BY <2>1, <2>3, <2>4 DEF CountOK
  <2>6. Made'
    BY <1>4 DEF Made
  <2>7. Current'
    BY <1>2, <2>1, <2>3 DEF Current
  <2> QED BY <2>5, <2>6, <2>7
<1> QED BY <1>3, <1>4 DEF Finish

LEMMA OverlaySaved ==
  ASSUME OverlaysOK, NEW s \in Subs, NEW new, OverlayOK(new), overlay' = [overlay EXCEPT ![s] = new]
  PROVE  /\ OverlaysOK' /\ overlay'[s] = new
         /\ \A t \in Subs \ {s} : overlay'[t] = overlay[t]
<1>1. PICK f : f = overlay
  OBVIOUS
<1>2. f = [t \in Subs |-> f[t]] /\ \A t \in Subs : OverlayOK(f[t])
  BY <1>1 DEF OverlaysOK
<1>3. PICK n : n = overlay'
  OBVIOUS
<1>4. n = [f EXCEPT ![s] = new]
  BY <1>1, <1>3
<1>5. /\ n = [t \in Subs |-> n[t]] /\ n[s] = new
      /\ \A t \in Subs \ {s} : n[t] = f[t]
  BY <1>2, <1>4
<1>6. \A t \in Subs : OverlayOK(n[t])
  BY <1>2, <1>5
<1> QED BY <1>1, <1>3, <1>5, <1>6 DEF OverlaysOK

LEMMA StepShape ==
  ASSUME Inv, Next
  PROVE  /\ Shaped'
         /\ \/ UNCHANGED <<cache, active, overlay, rules, config, count>>
            \/ \E kind \in Kinds : \E report : Finish(kind, report)
<1> Typed /\ Shaped
  BY DEF Inv, Typed
<1> "command" \in Kinds /\ "upstream" \in Kinds /\ "rule" \in Kinds
  BY DEF Kinds
<1>1. ASSUME NEW p \in Procs, Begin(p) \/ GiveUp(p)
      PROVE  Shaped' /\ UNCHANGED <<cache, active, overlay, rules, config, count>>
  BY <1>1 DEF Begin, GiveUp, Shaped, OverlaysOK
<1>2. ASSUME NEW p \in Procs, Editing(p)
      PROVE  Shaped' /\ \E kind \in Kinds : \E report : Finish(kind, report)
  <2>1. ps[p] # None /\ ps[p] \in Subs
    BY <1>2, EditingSaves, Working
  <2>2. PICK new, report : Saves(p, new, report)
    BY <1>2, EditingSaves
  <2>3. OverlayOK(new) /\ Save(p, new, report)
    BY <2>2 DEF Saves
  <2>4. OverlaysOK'
    BY <2>1, <2>3, OverlaySaved DEF Save, Shaped
  <2>5. Shaped'
    BY <2>3, <2>4 DEF Save, Shaped
  <2> QED BY <2>3, <2>5 DEF Save
<1>3. ASSUME NEW g \in Groups, NEW d \in Definitions, Create(g, d)
      PROVE  Shaped' /\ \E kind \in Kinds : \E report : Finish(kind, report)
  <2>1. PICK new :
          /\ OverlayOK(new)
          /\ overlay' = [overlay EXCEPT ![active] = new]
          /\ UNCHANGED <<cache, active, rules, ps>>
          /\ Finish("command", None)
    BY <1>3, CreateMakes
  <2>2. OverlaysOK'
    BY <2>1, OverlaySaved DEF Shaped
  <2> QED BY <2>1, <2>2 DEF Shaped
<1>4. ASSUME NEW t \in Targets, RuleAdd(t) \/ RuleRemove(t)
      PROVE  Shaped' /\ \E kind \in Kinds : \E report : Finish(kind, report)
  BY <1>4 DEF RuleAdd, RuleRemove, Shaped, OverlaysOK
<1>5. ASSUME RuleReplace
      PROVE  Shaped' /\ \E kind \in Kinds : \E report : Finish(kind, report)
  BY <1>5 DEF RuleReplace, Shaped, OverlaysOK
<1>6. ASSUME NEW s \in Subs, Refresh(s) \/ Switch(s)
      PROVE  Shaped' /\ \E kind \in Kinds : \E report : Finish(kind, report)
  BY <1>6 DEF Refresh, Switch, Shaped, OverlaysOK
<1> QED BY <1>1, <1>2, <1>3, <1>4, <1>5, <1>6 DEF Next, Editing

LEMMA InitInv == Init => Inv
<1> SUFFICES ASSUME Init PROVE Inv
  OBVIOUS
<1>1. Initial \in [Subs -> Contents] /\ Ruled \subseteq Targets
  BY ContentsAssumption, NamesAssumption
<1>2. overlay = [s \in Subs |-> Plain] /\ \A s \in Subs : overlay[s] = Plain
  BY DEF Init
<1>3. OverlaysOK
  BY <1>2, PlainTyped DEF OverlaysOK
<1>4. Shaped
  BY <1>1, <1>3 DEF Init, Shaped
<1>5. CountOK
  BY BoundsAssumption DEF Init, CountOK
<1>6. Generable(Plain, Initial[active]) /\ config = Generated(Plain, Initial[active], Ruled)
  BY DEF Init, Generable
<1>7. Made
  BY <1>1, <1>4, <1>6, PlainTyped DEF Made, Shaped
<1>8. Current
  BY <1>2, <1>4, <1>6 DEF Init, Current, Shaped
<1> QED BY <1>4, <1>5, <1>7, <1>8 DEF Inv, Typed

LEMMA NextInv == Inv /\ [Next]_vars => Inv'
<1> SUFFICES ASSUME Inv, [Next]_vars PROVE Inv'
  OBVIOUS
<1>1. CASE Next
  <2>1. Shaped'
    BY <1>1, StepShape
  <2>2. CASE UNCHANGED <<cache, active, overlay, rules, config, count>>
    BY <2>1, <2>2 DEF Inv, Typed, CountOK, Made, Current
  <2>3. ASSUME NEW kind \in Kinds, NEW report, Finish(kind, report)
        PROVE  Inv'
    BY <2>1, <2>3, FinishKeeps DEF Inv, Typed
  <2> QED BY <1>1, <2>2, <2>3, StepShape
<1>2. CASE UNCHANGED vars
  BY <1>2 DEF vars, Inv, Typed, Shaped, OverlaysOK, CountOK, Made, Current
<1> QED BY <1>1, <1>2

LEMMA Invariance == Spec => []Inv
BY InitInv, NextInv, PTL DEF Spec

-----------------------------------------------------------------------------
(* The theorems.                                                           *)

\* Overlays, rules, commands and counters stay what they are declared to be.
THEOREM GroupsTypeCorrect == Spec => []TypeOK
<1>1. Inv => TypeOK
  <2> SUFFICES ASSUME Inv PROVE TypeOK
    OBVIOUS
  <2>1. \A s \in Subs :
          /\ overlay[s].hidden \subseteq Groups
          /\ \A g \in DOMAIN overlay[s].custom : overlay[s].custom[g] \in Defined
          /\ \A g \in DOMAIN overlay[s].patches : overlay[s].patches[g] \in Patches
    BY DEF Inv, Typed, Shaped, OverlaysOK, OverlayOK
  <2>2. \A kind \in DOMAIN Limit : count[kind] \in 0..Limit[kind]
    BY BoundsAssumption DEF Inv, Typed, CountOK
  <2> QED BY <2>1, <2>2 DEF TypeOK, Inv, Typed, Shaped, Patches
<1> QED BY <1>1, Invariance, PTL

\* What the Core is given is one it can load: no group without members, no
\* unknown member, no cycle, no rule without its target and no relay that was
\* given a direct way out, whatever failed and whatever upstream has changed.
THEOREM GroupsAreSound == Spec => []GroupsSound
<1>1. Inv => GroupsSound
  BY GeneratedIsSound DEF Inv, Made
<1> QED BY <1>1, Invariance, PTL

LEMMA CurrentKeepsIncrements == Inv => IncrementsKept
<1> SUFFICES ASSUME Inv, count.fault = 0
             PROVE  LET ov == overlay[active]
                        c == cache[active]
                        G == config.groups
                        known == DOMAIN G \cup c.nodes \cup Builtins \cup Providers
                    IN /\ \A g \in DOMAIN ov.custom :
                            /\ g \in DOMAIN G /\ G[g].kind = ov.custom[g].kind
                            /\ ov.custom[g].members \cap known \subseteq G[g].members
                       /\ ov.hidden \cap DOMAIN G \subseteq DOMAIN ov.custom
                       /\ \A g \in DOMAIN ov.patches \cap Shown(ov, c) :
                            /\ ov.patches[g].add \cap known \subseteq G[g].members
                            /\ ov.patches[g].remove \cap G[g].members \subseteq Fallback(G[g].kind)
  BY DEF IncrementsKept
<1>1. PICK ov : ov = overlay[active]
  OBVIOUS
<1>2. PICK c : c = cache[active]
  OBVIOUS
<1>3. PICK G : G = config.groups
  OBVIOUS
<1>4. OverlayOK(ov) /\ c \in Contents
  BY <1>1, <1>2 DEF Inv, Typed, Shaped, OverlaysOK
<1>5. Generable(ov, c) /\ G = IF ov = Plain THEN c.groups ELSE Tolerated(ov, c)
  BY <1>1, <1>2, <1>3 DEF Inv, Current, Generated
<1>6. CASE ov = Plain
  <2>1. DOMAIN ov.custom = {} /\ ov.hidden = {} /\ DOMAIN ov.patches = {}
    BY <1>6 DEF Plain, NoGroups
  <2> QED BY <1>1, <1>2, <1>3, <2>1
<1>7. CASE ov # Plain
  <2>1. Mergeable(ov, c) /\ G = Tolerated(ov, c)
    BY <1>5, <1>7 DEF Generable
  <2>2. PICK D : D = Drafted(ov, c)
    OBVIOUS
  <2>3. DOMAIN G = DOMAIN D /\ DOMAIN D = Names(ov, c)
    BY <1>4, <2>1, <2>2, ToleratedGroups, DraftedGroups DEF Names
  <2>4. ASSUME NEW g \in DOMAIN D
        PROVE  /\ G[g].kind = D[g].kind
               /\ \/ G[g].members = D[g].members \cap (Known(D, c) \cup Providers)
                  \/ /\ D[g].members \cap (Known(D, c) \cup Providers) = {}
                     /\ G[g].members = Fallback(D[g].kind)
    <3>1. g \in DOMAIN Drafted(ov, c)
      BY <2>2, <2>4
    <3>2. /\ Left(ov, c, g) = Drafted(ov, c)[g].members \cap (Known(Drafted(ov, c), c) \cup Providers)
          /\ Tolerated(ov, c)[g].kind = Drafted(ov, c)[g].kind
          /\ Left(ov, c, g) = {} => Tolerated(ov, c)[g].members = Fallback(Drafted(ov, c)[g].kind)
          /\ Left(ov, c, g) # {} => Tolerated(ov, c)[g].members = Left(ov, c, g)
      BY <1>4, <3>1, ToleratedGroups
    <3> QED BY <2>1, <2>2, <3>2
  <2>5. Known(D, c) \cup Providers = DOMAIN G \cup c.nodes \cup Builtins \cup Providers
    BY <2>3 DEF Known
  <2>6. ASSUME NEW g \in DOMAIN ov.custom
        PROVE  /\ g \in DOMAIN G /\ G[g].kind = ov.custom[g].kind
               /\ ov.custom[g].members \cap (Known(D, c) \cup Providers) \subseteq G[g].members
    <3>1. g \in DOMAIN D
      BY <2>3, <2>6 DEF Names
    <3>2. D[g] = ov.custom[g]
      BY <1>4, <2>2, <2>6, DraftedGroups
    <3> QED BY <2>3, <2>4, <3>1, <3>2
  <2>7. ov.hidden \cap DOMAIN G \subseteq DOMAIN ov.custom
    BY <2>3 DEF Names, Shown
  <2>8. ASSUME NEW g \in DOMAIN ov.patches \cap Shown(ov, c)
        PROVE  /\ ov.patches[g].add \cap (Known(D, c) \cup Providers) \subseteq G[g].members
               /\ ov.patches[g].remove \cap G[g].members \subseteq Fallback(G[g].kind)
    <3>1. g \in Shown(ov, c) \ DOMAIN ov.custom /\ g \in DOMAIN D
      BY <2>1, <2>3, <2>8 DEF Mergeable, Names
    <3>2. PatchOf(ov, g) = ov.patches[g] /\ ov.patches[g].add \cap ov.patches[g].remove = {}
      BY <1>4, <2>8, Parts DEF PatchOf
    <3>3. D[g].members = (c.groups[g].members \ PatchOf(ov, g).remove) \cup PatchOf(ov, g).add
      BY <1>4, <2>2, <3>1, DraftedGroups
    <3> QED BY <2>4, <3>1, <3>2, <3>3
  <2> QED BY <1>1, <1>2, <1>3, <2>5, <2>6, <2>7, <2>8
<1> QED BY <1>6, <1>7

\* "Incremental configuration is not lost when the subscription is updated":
\* until something fails, config.yaml has what the user made of the active
\* subscription's groups, through every refresh, switch, edit and rule command.
THEOREM IncrementsAreKept == Spec => []IncrementsKept
BY CurrentKeepsIncrements, Invariance, PTL

LEMMA KnownNames ==
  ASSUME NEW ov, OverlayOK(ov), NEW c \in Contents
  PROVE  Known(Drafted(ov, c), c) = Names(ov, c) \cup c.nodes \cup Builtins
BY DraftedGroups DEF Known, Names

\* No command on groups takes the target away from a rule of the user, under
\* the subscription it works on or under any other.
THEOREM RulesKeepTargets == Spec => NoReroute
<1>1. ASSUME Inv, [Next]_vars, overlay' # overlay, NEW s \in Subs
      PROVE  Lost(s)' \subseteq Lost(s)
  <2> Typed /\ Shaped
    BY <1>1 DEF Inv, Typed
  <2>1. ASSUME NEW t \in Subs, NEW new, OverlayOK(new),
               overlay' = [overlay EXCEPT ![t] = new], UNCHANGED <<cache, rules>>,
               rules \cap Names(overlay[t], cache[t]) \subseteq Names(new, cache[t])
        PROVE  Lost(s)' \subseteq Lost(s)
    <3>1. cache[s] \in Contents /\ OverlayOK(overlay[s])
      BY DEF Shaped, OverlaysOK
    <3>2. overlay'[t] = new /\ (s # t => overlay'[s] = overlay[s])
      BY <2>1, OverlaySaved DEF Shaped
    <3>3. rules' = rules /\ cache'[s] = cache[s]
      BY <2>1
    <3>4. OverlayOK(overlay'[s])
      BY <2>1, <3>1, <3>2
    <3>5. Lost(s) = rules \ (Names(overlay[s], cache[s]) \cup cache[s].nodes \cup Builtins)
      BY <3>1, KnownNames DEF Lost
    <3>6. Known(Drafted(overlay'[s], cache[s]), cache[s])
            = Names(overlay'[s], cache[s]) \cup cache[s].nodes \cup Builtins
      BY <3>1, <3>4, KnownNames
    <3>7. Lost(s)' = rules \ (Names(overlay'[s], cache[s]) \cup cache[s].nodes \cup Builtins)
      BY <3>3, <3>6 DEF Lost
    <3> QED BY <2>1, <3>2, <3>5, <3>7
  <2>2. ASSUME NEW p \in Procs, Editing(p)
        PROVE  Lost(s)' \subseteq Lost(s)
    <3>1. ps[p] \in Subs
      BY <2>2, EditingSaves, Working
    <3>2. PICK new, report : Saves(p, new, report)
      BY <2>2, EditingSaves
    <3>3. /\ OverlayOK(new) /\ overlay' = [overlay EXCEPT ![ps[p]] = new]
          /\ UNCHANGED <<cache, rules>>
          /\ rules \cap Names(overlay[ps[p]], cache[ps[p]]) \subseteq Names(new, cache[ps[p]])
      BY <3>2 DEF Saves, Save, Keeps, Overlay, Content
    <3> QED BY <2>1, <3>1, <3>3
  <2>3. ASSUME NEW g \in Groups, NEW d \in Definitions, Create(g, d)
        PROVE  Lost(s)' \subseteq Lost(s)
    <3>1. active \in Subs
      BY DEF Shaped
    <3>2. PICK new :
            /\ OverlayOK(new) /\ Names(overlay[active], cache[active]) \subseteq Names(new, cache[active])
            /\ overlay' = [overlay EXCEPT ![active] = new]
            /\ UNCHANGED <<cache, active, rules, ps>>
      BY <2>3, CreateMakes
    <3>3. /\ UNCHANGED <<cache, rules>>
          /\ rules \cap Names(overlay[active], cache[active]) \subseteq Names(new, cache[active])
      BY <3>2
    <3> QED BY <2>1, <3>1, <3>2, <3>3
  <2> QED BY <1>1, <2>2, <2>3
       DEF Next, Editing, Begin, GiveUp, RuleAdd, RuleRemove, RuleReplace, Refresh, Switch, vars
<1>2. ASSUME Inv, [Next]_vars
      PROVE  [overlay' # overlay => \A s \in Subs : Lost(s)' \subseteq Lost(s)]_vars
  BY <1>1, <1>2
<1> QED BY <1>2, Invariance, PTL DEF Spec, NoReroute

\* What is generated by a strict merge: the groups as they were drafted, also
\* when there is nothing to merge.
LEMMA StrictGenerates ==
  ASSUME NEW new, OverlayOK(new), NEW c \in Contents, Strict(new, c),
         NEW G, G = IF new = Plain THEN c.groups ELSE Tolerated(new, c)
  PROVE  /\ DOMAIN G = Names(new, c)
         /\ \A g \in DOMAIN G : G[g] = Drafted(new, c)[g] /\ G[g] \in Defined
         /\ Shown(new, c) \cap DOMAIN new.custom = {}
<1>1. PICK D : D = Drafted(new, c)
  OBVIOUS
<1>2. /\ DOMAIN D = Names(new, c) /\ \A g \in DOMAIN D : D[g] \in Defined
  BY <1>1, DraftedGroups DEF Names
<1>3. Shown(new, c) \cap DOMAIN new.custom = {}
  BY DEF Strict, Mergeable
<1>4. CASE new = Plain
  <2>1. G = c.groups
    BY <1>4
  <2>2. DOMAIN new.custom = {} /\ new.hidden = {} /\ DOMAIN new.patches = {}
    BY <1>4 DEF Plain, NoGroups
  <2>3. Shown(new, c) = DOMAIN c.groups /\ Names(new, c) = DOMAIN G
    BY <2>1, <2>2 DEF Shown, Names
  <2>4. ASSUME NEW g \in DOMAIN G
        PROVE  G[g] = D[g]
    <3>1. G[g] \in Defined /\ D[g] \in Defined
      BY <1>2, <2>1, <2>3, <2>4, ContentsAssumption
    <3>2. g \in Shown(new, c) \ DOMAIN new.custom /\ PatchOf(new, g) = [add |-> {}, remove |-> {}]
      BY <2>1, <2>2, <2>3, <2>4 DEF PatchOf
    <3>3. /\ D[g].kind = c.groups[g].kind
          /\ D[g].members = (c.groups[g].members \ PatchOf(new, g).remove) \cup PatchOf(new, g).add
      BY <1>1, <3>2, DraftedGroups
    <3>4. D[g].kind = G[g].kind /\ D[g].members = G[g].members
      BY <2>1, <3>2, <3>3
    <3> QED BY <3>1, <3>4 DEF Defined
  <2> QED BY <1>1, <1>2, <1>3, <2>3, <2>4
<1>5. CASE new # Plain
  <2>1. DOMAIN G = DOMAIN D
    BY <1>1, <1>5, ToleratedGroups
  <2>2. \A g \in DOMAIN D : G[g] = D[g]
    BY <1>1, <1>5, StrictIsDrafted
  <2> QED BY <1>1, <1>2, <1>3, <2>1, <2>2
<1> QED BY <1>4, <1>5

\* What TakesEffect says, with the state before and after taken apart.
Effect(r, G, ov, c) ==
  LET twice == IF r.group \in Shown(ov, c)
               THEN PatchOf(ov, r.group).add \cap c.groups[r.group].members
               ELSE {}
      drafted == r.group \in DOMAIN Drafted(ov, c)
  IN /\ r.op = "edit" => r.group \in DOMAIN G /\ G[r.group] = r.arg
     /\ r.op = "delete" => r.group \notin DOMAIN G
     /\ r.op = "reset" => r.group \in DOMAIN G /\ G[r.group] = c.groups[r.group]
     /\ r.op = "add" /\ drafted => r.arg \in G[r.group].members
     /\ r.op = "remove" /\ drafted => r.arg \notin G[r.group].members \ twice

LEMMA EffectIsEnough ==
  ASSUME NEW r, r.op \in {"edit", "delete", "reset", "add", "remove"}, said' = r,
         Effect(r, config'.groups, overlay[active], cache[active])
  PROVE  TakesEffect
<1>1. CASE r.op = "edit"
  BY <1>1 DEF Effect, TakesEffect
<1>2. CASE r.op = "delete"
  BY <1>2 DEF Effect, TakesEffect
<1>3. CASE r.op = "reset"
  BY <1>3 DEF Effect, TakesEffect
<1>4. CASE r.op = "add"
  BY <1>4 DEF Effect, TakesEffect
<1>5. CASE r.op = "remove"
  BY <1>5 DEF Effect, TakesEffect
<1> QED BY <1>1, <1>2, <1>3, <1>4, <1>5

\* A step in which a command works on p's group and reports success, taken apart.
LEMMA Reported ==
  ASSUME Typed, NEW p \in Procs, ps[p] = active, NEW new, NEW report, Saves(p, new, report), said' # None
  PROVE  /\ OverlayOK(overlay[active]) /\ cache[active] \in Contents
         /\ OverlayOK(new) /\ Strict(new, cache[active]) /\ said' = report
         /\ config'.groups = IF new = Plain THEN cache[active].groups ELSE Tolerated(new, cache[active])
<1>1. /\ active \in Subs /\ OverlayOK(overlay[active]) /\ cache[active] \in Contents
  BY DEF Typed, Shaped, OverlaysOK
<1>2. /\ OverlayOK(new) /\ Strict(new, cache[active])
      /\ overlay' = [overlay EXCEPT ![active] = new]
      /\ UNCHANGED <<cache, active, rules>>
      /\ Finish("command", report)
  BY DEF Saves, Save
<1>3. overlay'[active'] = new /\ cache'[active'] = cache[active]
  BY <1>1, <1>2, OverlaySaved DEF Typed, Shaped
<1>4. said' = report /\ config' = Generated(overlay'[active'], cache'[active'], rules')
  BY <1>2 DEF Finish
<1>5. config' = Generated(new, cache[active], rules')
  BY <1>3, <1>4
<1>6. config'.groups = IF new = Plain THEN cache[active].groups ELSE Tolerated(new, cache[active])
  BY <1>5 DEF Generated
<1> QED BY <1>1, <1>2, <1>4, <1>6

LEMMA PatchTakesEffect ==
  ASSUME NEW ov, OverlayOK(ov), NEW c \in Contents, NEW g, NEW new, OverlayOK(new), NEW patch,
         Patched(ov, c, g, new, patch), g \in DOMAIN Drafted(ov, c)
  PROVE  /\ g \in Shown(ov, c) /\ g \in DOMAIN Drafted(new, c)
         /\ Drafted(new, c)[g].members = (c.groups[g].members \ patch.remove) \cup patch.add
<1>1. g \in Shown(ov, c) \ DOMAIN ov.custom
  BY DraftedGroups DEF Patched
<1>2. g \in Shown(new, c) \ DOMAIN new.custom /\ PatchOf(new, g) = patch
  BY <1>1 DEF Patched, Shown
<1>3. DOMAIN Drafted(new, c) = Shown(new, c) \cup DOMAIN new.custom
  BY DraftedGroups
<1>4. \A h \in Shown(new, c) \ DOMAIN new.custom :
        Drafted(new, c)[h].members
          = (c.groups[h].members \ PatchOf(new, h).remove) \cup PatchOf(new, h).add
  BY DraftedGroups
<1> QED BY <1>1, <1>2, <1>3, <1>4

LEMMA CustomIsDrafted ==
  ASSUME NEW new, OverlayOK(new), NEW c \in Contents, NEW g \in DOMAIN new.custom
  PROVE  g \in DOMAIN Drafted(new, c) /\ Drafted(new, c)[g] = new.custom[g]
<1>1. DOMAIN Drafted(new, c) = Shown(new, c) \cup DOMAIN new.custom
  BY DraftedGroups
<1>2. \A h \in DOMAIN new.custom : Drafted(new, c)[h] = new.custom[h]
  BY DraftedGroups
<1> QED BY <1>1, <1>2

LEMMA EditingTakesEffect ==
  ASSUME Typed, NEW p \in Procs, ps[p] = active, Editing(p), said' # None
  PROVE  TakesEffect
<1>1. PICK g \in Groups :
        \/ Delete(p, g) \/ Reset(p, g)
        \/ \E d \in Definitions : Edit(p, g, d)
        \/ \E m \in Items : AddMember(p, g, m) \/ RemoveMember(p, g, m)
  BY DEF Editing
<1>2. PICK ov : ov = overlay[active]
  OBVIOUS
<1>3. PICK c : c = cache[active]
  OBVIOUS
<1>4. Overlay(p) = ov /\ Content(p) = c
  BY <1>2, <1>3 DEF Overlay, Content
<1>5. PICK G : G = config'.groups
  OBVIOUS
<1>6. ASSUME NEW new, NEW report, Saves(p, new, report)
      PROVE  /\ OverlayOK(ov) /\ c \in Contents /\ OverlayOK(new) /\ said' = report
             /\ DOMAIN G = Names(new, c) /\ DOMAIN G = DOMAIN Drafted(new, c)
             /\ \A h \in DOMAIN G : G[h] = Drafted(new, c)[h] /\ G[h] \in Defined
             /\ Shown(new, c) \cap DOMAIN new.custom = {}
  <2>1. /\ OverlayOK(ov) /\ c \in Contents /\ OverlayOK(new) /\ Strict(new, c) /\ said' = report
        /\ G = IF new = Plain THEN c.groups ELSE Tolerated(new, c)
    BY <1>2, <1>3, <1>5, <1>6, Reported
  <2>2. DOMAIN Drafted(new, c) = Names(new, c)
    BY <2>1, DraftedGroups DEF Names
  <2> QED BY <2>1, <2>2, StrictGenerates
<1>7. ASSUME NEW d \in Definitions, Edit(p, g, d)
      PROVE  TakesEffect
  <2>1. PICK new : new = Replaced(ov, g, d)
    OBVIOUS
  <2>2. Saves(p, new, Report("edit", g, d)) /\ g \in DOMAIN new.custom /\ new.custom[g] = d
    BY <1>4, <1>7, <2>1, EditSaves
  <2>3. /\ OverlayOK(new) /\ c \in Contents /\ said' = Report("edit", g, d)
        /\ DOMAIN G = DOMAIN Drafted(new, c) /\ \A h \in DOMAIN G : G[h] = Drafted(new, c)[h]
    BY <1>6, <2>2
  <2>4. g \in DOMAIN Drafted(new, c) /\ Drafted(new, c)[g] = d
    BY <2>2, <2>3, CustomIsDrafted
  <2>5. g \in DOMAIN G /\ G[g] = d
    BY <2>3, <2>4
  <2> QED BY <1>2, <1>3, <1>5, <2>3, <2>5, EffectIsEnough DEF Effect, Report
<1>8. ASSUME Delete(p, g)
      PROVE  TakesEffect
  <2>1. PICK new : Saves(p, new, Report("delete", g, None)) /\ g \notin Names(new, c)
    BY <1>4, <1>8, DeleteSaves
  <2>2. g \notin DOMAIN G /\ said' = Report("delete", g, None)
    BY <1>6, <2>1
  <2> QED BY <1>2, <1>3, <1>5, <2>2, EffectIsEnough DEF Effect, Report
<1>9. ASSUME Reset(p, g)
      PROVE  TakesEffect
  <2>1. PICK new :
          /\ Saves(p, new, Report("reset", g, None))
          /\ g \in Shown(new, c) \ DOMAIN new.custom
          /\ PatchOf(new, g) = [add |-> {}, remove |-> {}]
    BY <1>4, <1>9, ResetSaves
  <2>2. g \in DOMAIN G /\ G[g] = Drafted(new, c)[g] /\ G[g] \in Defined /\ said' = Report("reset", g, None)
    BY <1>6, <2>1 DEF Names
  <2>3. OverlayOK(new) /\ c \in Contents
    BY <1>6, <2>1
  <2>4. /\ Drafted(new, c)[g].kind = c.groups[g].kind
        /\ Drafted(new, c)[g].members
             = (c.groups[g].members \ PatchOf(new, g).remove) \cup PatchOf(new, g).add
    BY <2>1, <2>3, DraftedGroups
  <2>5. c.groups[g] \in Defined
    BY <2>1, <2>3, ContentsAssumption DEF Shown
  <2>6. G[g].kind = c.groups[g].kind /\ G[g].members = c.groups[g].members
    BY <2>1, <2>2, <2>4
  <2>7. G[g] = c.groups[g]
    BY <2>2, <2>5, <2>6 DEF Defined
  <2> QED BY <1>2, <1>3, <1>5, <2>2, <2>7, EffectIsEnough DEF Effect, Report
<1>10. ASSUME NEW m \in Items, AddMember(p, g, m)
       PROVE  TakesEffect
  <2>1. PICK own : own = c.groups[g].members
    OBVIOUS
  <2>2. PICK patch : patch = Adding(PatchOf(ov, g), own, m)
    OBVIOUS
  <2>3. PICK new :
          /\ Saves(p, new, Report("add", g, m))
          /\ \/ Patched(ov, c, g, new, patch)
             \/ Regrouped(ov, g, new, ov.custom[g].members \cup {m})
    BY <1>4, <1>10, <2>1, <2>2, AddSaves
  <2>4. /\ OverlayOK(ov) /\ OverlayOK(new) /\ c \in Contents /\ said' = Report("add", g, m)
        /\ DOMAIN G = DOMAIN Drafted(new, c) /\ \A h \in DOMAIN G : G[h] = Drafted(new, c)[h]
    BY <1>6, <2>3
  <2>5. ASSUME g \in DOMAIN Drafted(ov, c)
        PROVE  m \in G[g].members
    <3>1. CASE Patched(ov, c, g, new, patch)
      <4>1. g \in DOMAIN G /\ G[g].members = (own \ patch.remove) \cup patch.add
        BY <2>1, <2>4, <2>5, <3>1, PatchTakesEffect
      <4> QED BY <2>2, <4>1 DEF Adding
    <3>2. CASE Regrouped(ov, g, new, ov.custom[g].members \cup {m})
      <4>1. g \in DOMAIN new.custom /\ new.custom[g].members = ov.custom[g].members \cup {m}
        BY <3>2 DEF Regrouped
      <4>2. g \in DOMAIN G /\ G[g] = new.custom[g]
        BY <2>4, <4>1, CustomIsDrafted
      <4> QED BY <4>1, <4>2
    <3> QED BY <2>3, <3>1, <3>2
  <2> QED BY <1>2, <1>3, <1>5, <2>4, <2>5, EffectIsEnough DEF Effect, Report
<1>11. ASSUME NEW m \in Items, RemoveMember(p, g, m)
       PROVE  TakesEffect
  <2>1. PICK own : own = c.groups[g].members
    OBVIOUS
  <2>2. PICK patch : patch = Removing(PatchOf(ov, g), m)
    OBVIOUS
  <2>3. PICK new :
          /\ Saves(p, new, Report("remove", g, m))
          /\ \/ Patched(ov, c, g, new, patch)
             \/ Regrouped(ov, g, new, ov.custom[g].members \ {m})
    BY <1>4, <1>11, <2>2, RemoveSaves
  <2>4. /\ OverlayOK(ov) /\ OverlayOK(new) /\ c \in Contents /\ said' = Report("remove", g, m)
        /\ DOMAIN G = DOMAIN Drafted(new, c) /\ \A h \in DOMAIN G : G[h] = Drafted(new, c)[h]
    BY <1>6, <2>3
  <2>5. ASSUME g \in DOMAIN Drafted(ov, c), m \in G[g].members
        PROVE  g \in Shown(ov, c) /\ m \in PatchOf(ov, g).add \cap own
    <3>1. CASE Patched(ov, c, g, new, patch)
      <4>1. /\ g \in Shown(ov, c) /\ g \in DOMAIN G
            /\ G[g].members = (own \ patch.remove) \cup patch.add
        BY <2>1, <2>4, <2>5, <3>1, PatchTakesEffect
      <4>2. PatchOf(ov, g) \in Patches
        BY <2>4, PatchTyped
      <4>3. CASE m \in PatchOf(ov, g).add
        <5>1. m \notin patch.add
          BY <2>2, <4>2, <4>3 DEF Removing, Patches
        <5> QED BY <2>5, <4>1, <4>3, <5>1
      <4>4. CASE m \notin PatchOf(ov, g).add
        <5>1. m \in patch.remove /\ m \notin patch.add
          BY <2>2, <4>2, <4>4 DEF Removing, Patches
        <5> QED BY <2>5, <4>1, <5>1
      <4> QED BY <4>3, <4>4
    <3>2. CASE Regrouped(ov, g, new, ov.custom[g].members \ {m})
      <4>1. g \in DOMAIN new.custom /\ new.custom[g].members = ov.custom[g].members \ {m}
        BY <3>2 DEF Regrouped
      <4>2. g \in DOMAIN G /\ G[g] = new.custom[g]
        BY <2>4, <4>1, CustomIsDrafted
      <4> QED BY <2>5, <4>1, <4>2
    <3> QED BY <2>3, <3>1, <3>2
  <2> QED BY <1>2, <1>3, <1>5, <2>1, <2>4, <2>5, EffectIsEnough DEF Effect, Report
<1> QED BY <1>1, <1>7, <1>8, <1>9, <1>10, <1>11

\* A command on a group that reports success has done to config.yaml what it
\* says, whatever was edited, refreshed and switched between its two locks.
THEOREM AcceptedEditsTakeEffect == Spec => AcceptedTakesEffect
<1>1. ASSUME Inv, [Next]_vars, said' # None, NEW p \in Procs, ps[p] = active, ps'[p] = None
      PROVE  TakesEffect
  <2>1. Typed /\ ps[p] # None /\ ps \in [Procs -> Subs \cup {None}]
    BY <1>1, NamesAssumption DEF Inv, Typed, Shaped
  <2>2. PICK q \in Procs : Begin(q) \/ GiveUp(q) \/ Editing(q)
    BY <1>1, <2>1 DEF Next, Editing, Create, RuleAdd, RuleRemove, RuleReplace, Refresh, Switch, vars
  <2>3. CASE Begin(q) \/ GiveUp(q)
    BY <1>1, <2>3 DEF Begin, GiveUp
  <2>4. CASE Editing(q)
    <3>1. PICK new, report : Saves(q, new, report)
      BY <2>1, <2>4, EditingSaves
    <3>2. ps' = [ps EXCEPT ![q] = None]
      BY <3>1 DEF Saves, Save
    <3>3. q = p
      BY <1>1, <2>1, <3>2
    <3> QED BY <1>1, <2>1, <2>4, <3>3, EditingTakesEffect
  <2> QED BY <2>2, <2>3, <2>4
<1>2. ASSUME Inv, [Next]_vars
      PROVE  [said' # None /\ (\E p \in Procs : ps[p] = active /\ ps'[p] = None) => TakesEffect]_vars
  BY <1>1, <1>2
<1> QED BY <1>2, Invariance, PTL DEF Spec, AcceptedTakesEffect

=============================================================================
