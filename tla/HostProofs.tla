------------------------------ MODULE HostProofs ------------------------------
(***************************************************************************)
(* Proofs about MCHost, for every value of its constants: that no socket   *)
(* of an earlier token is left open, that what is installed is whole,      *)
(* that what one daemon stored stays, through every upgrade of its schema, *)
(* and that every component keeps its types.                               *)
(* Each part has an invariant of its own, proved under the names MCHost    *)
(* instantiates it by; a step of the whole is a step of one part, and the  *)
(* others rest (StepsOfOne).                                               *)
(***************************************************************************)
EXTENDS MCHost, Integers, FiniteSets, FiniteSetTheorems, TLAPS

\* A step of the host is a step of one component, and the others rest.
LEMMA StepsOfOne ==
  ASSUME [Next]_vars
  PROVE  /\ [Doors!GatewayNext]_gatewayVars
         /\ [Update!UpdaterNext]_updaterVars
         /\ [Tooling!ToolsetNext]_toolsetVars
         /\ [Market!SkillNext]_skillsVars
         /\ [Start!BootNext]_bootVars
         /\ [Config!SettingsNext]_settingsVars
         /\ [Store!StoreNext]_sessionsVars
         /\ [Checkout!ProjectNext]_gitVars
         /\ [Migrate!MigrationNext]_migrateVars
BY DEF Next, vars, Only

-----------------------------------------------------------------------------
(* The gateway: the sockets are closed after the token was swapped, so one *)
(* that registers later is checked against the new token, and one that     *)
(* registered before is in the registry when it is closed (LiveIsCurrent). *)

Handshakes == [at : {"gone", "asked", "upgraded", "live", "closing"}, token : Int]

DoorTypes ==
  /\ conn \in [Clients -> Handshakes]
  /\ rotate \in {"idle", "stored", "swapped"}

\* Until the token is swapped, what is live showed the token in memory; between
\* the swap and the closing there may be older ones.
LiveIsCurrent ==
  rotate # "swapped" => \A c \in Clients : conn[c].at = "live" => conn[c].token = token

GatewayInv == DoorTypes /\ LiveIsCurrent

-----------------------------------------------------------------------------
LEMMA InitGatewayInv == Doors!GatewayInit => GatewayInv
<1> SUFFICES ASSUME Doors!GatewayInit PROVE GatewayInv
  OBVIOUS
<1>1. Doors!Gone \in Handshakes /\ Doors!Gone.at = "gone"
  BY DEF Doors!Gone, Handshakes
<1> QED
  BY <1>1 DEF Doors!GatewayInit, GatewayInv, DoorTypes, LiveIsCurrent

\* The steps of one client's handshake: only the registration makes it live.
LEMMA HandshakeKeepsInv ==
  ASSUME GatewayInv, NEW c \in Clients,
         \/ \E t \in 1..MaxRotations + 1 : Doors!Ask(c, t)
         \/ Doors!Upgrade(c) \/ Doors!Register(c) \/ Doors!Leave(c)
  PROVE  GatewayInv'
<1>0. conn \in [Clients -> Handshakes] /\ rotate \in {"idle", "stored", "swapped"}
  BY DEF GatewayInv, DoorTypes
<1>1. UNCHANGED <<token, rotate>>
  BY DEF Doors!Ask, Doors!Upgrade, Doors!Register, Doors!Leave
<1>2. \E h \in Handshakes :
        /\ conn' = [conn EXCEPT ![c] = h]
        /\ h.at = "live" => h.token = token
  <2>1. ASSUME NEW t \in 1..MaxRotations + 1, Doors!Ask(c, t)
        PROVE  \E h \in Handshakes : conn' = [conn EXCEPT ![c] = h] /\ h.at # "live"
    <3>1. [at |-> "asked", token |-> t] \in Handshakes
      BY DEF Handshakes
    <3> QED
      BY <2>1, <3>1 DEF Doors!Ask
  <2>2. CASE Doors!Upgrade(c)
    <3>1. [conn[c] EXCEPT !.at = "upgraded"] \in Handshakes
      BY <1>0 DEF Handshakes
    <3> QED
      BY <1>0, <2>2, <3>1 DEF Doors!Upgrade, Handshakes
  <2>3. CASE Doors!Register(c) /\ Doors!Admitted(c)
    <3>1. [conn[c] EXCEPT !.at = "live"] \in Handshakes
      BY <1>0 DEF Handshakes
    <3>2. conn[c].token = token
      BY <2>3 DEF Doors!Admitted, Doors!Authorized
    <3> QED
      BY <1>0, <2>3, <3>1, <3>2 DEF Doors!Register, Handshakes
  <2>4. CASE (Doors!Register(c) /\ ~Doors!Admitted(c)) \/ Doors!Leave(c)
    <3>1. Doors!Gone \in Handshakes /\ Doors!Gone.at # "live"
      BY DEF Doors!Gone, Handshakes
    <3> QED
      BY <1>0, <2>4, <3>1 DEF Doors!Register, Doors!Leave
  <2> QED
    BY <2>1, <2>2, <2>3, <2>4
<1> QED
  BY <1>0, <1>1, <1>2 DEF GatewayInv, DoorTypes, LiveIsCurrent

\* The steps of a rotation: the swap leaves old sockets live, the closing does not.
LEMMA RotationKeepsInv ==
  ASSUME GatewayInv, Doors!StoreToken \/ Doors!SwapToken \/ Doors!CloseAll
  PROVE  GatewayInv'
<1>0. conn \in [Clients -> Handshakes] /\ rotate \in {"idle", "stored", "swapped"}
  BY DEF GatewayInv, DoorTypes
<1>1. CASE Doors!StoreToken
  BY <1>1 DEF Doors!StoreToken, GatewayInv, DoorTypes, LiveIsCurrent
<1>2. CASE Doors!SwapToken
  BY <1>2 DEF Doors!SwapToken, GatewayInv, DoorTypes, LiveIsCurrent
<1>3. CASE Doors!CloseAll
  <2>1. \A c \in Clients : conn'[c] \in Handshakes /\ conn'[c].at # "live"
    <3> SUFFICES ASSUME NEW c \in Clients PROVE conn'[c] \in Handshakes /\ conn'[c].at # "live"
      OBVIOUS
    <3>1. CASE c \in Doors!Registered
      BY <1>0, <1>3, <3>1 DEF Doors!CloseAll, Handshakes
    <3>2. CASE c \notin Doors!Registered
      BY <1>0, <1>3, <3>2 DEF Doors!CloseAll, Doors!Registered
    <3> QED
      BY <3>1, <3>2
  <2>2. conn' \in [Clients -> Handshakes]
    BY <1>3, <2>1 DEF Doors!CloseAll
  <2> QED
    BY <1>3, <2>1, <2>2 DEF Doors!CloseAll, GatewayInv, DoorTypes, LiveIsCurrent
<1> QED
  BY <1>1, <1>2, <1>3

LEMMA NextGatewayInv == GatewayInv /\ [Doors!GatewayNext]_gatewayVars => GatewayInv'
<1> SUFFICES ASSUME GatewayInv, [Doors!GatewayNext]_gatewayVars PROVE GatewayInv'
  OBVIOUS
<1>1. CASE \E c \in Clients : \/ \E t \in 1..MaxRotations + 1 : Doors!Ask(c, t)
                              \/ Doors!Upgrade(c) \/ Doors!Register(c) \/ Doors!Leave(c)
  BY <1>1, HandshakeKeepsInv
<1>2. CASE Doors!StoreToken \/ Doors!SwapToken \/ Doors!CloseAll
  BY <1>2, RotationKeepsInv
<1>3. CASE \/ \E c \in Clients : \E e \in mail[c] : Doors!Write(c, e) \/ Doors!Drop(c, e)
           \/ Doors!Broadcast \/ UNCHANGED gatewayVars
  <2>1. UNCHANGED <<conn, token, rotate>>
    BY <1>3 DEF Doors!Write, Doors!Drop, Doors!Broadcast, gatewayVars
  <2> QED
    BY <2>1 DEF GatewayInv, DoorTypes, LiveIsCurrent
<1>4. CASE Doors!Restart
  <2>1. Doors!Gone \in Handshakes /\ Doors!Gone.at # "live"
    BY DEF Doors!Gone, Handshakes
  <2>2. rotate' = "idle" /\ conn' = [c \in Clients |-> Doors!Gone]
    BY <1>4 DEF Doors!Restart
  <2> QED
    BY <2>1, <2>2 DEF GatewayInv, DoorTypes, LiveIsCurrent
<1> QED
  BY <1>1, <1>2, <1>3, <1>4 DEF Doors!GatewayNext

-----------------------------------------------------------------------------
(* Skills: a request never knows of a directory it may not touch, because  *)
(* it chooses a name that is managed or free; and what it renames into     *)
(* place, a new copy or the old one, is whole.                             *)

\* What may be at a skill's name: nothing, the user's own, or a whole skill.
Skills == [src : Sources, sha : Int, whole : {TRUE}] \cup {NoSkill, Own}

SkillRequests ==
  [at : {"idle", "extract", "resolve", "replace", "move", "put", "remove", "delete"},
   src : Sources \cup {"-"}, sha : Int, whole : BOOLEAN, name : Market!Names, knew : {FALSE},
   old : Skills]

SkillInv ==
  /\ heads \in [Sources -> Int] /\ dir \in [Market!Names -> Skills]
  /\ skillOp \in [Handlers -> SkillRequests] /\ lost = {}
  /\ \A h \in Handlers :
       /\ skillOp[h].at \in {"extract", "resolve", "replace", "move"} => skillOp[h].src \in Sources
       /\ skillOp[h].at \in {"resolve", "replace", "move"} => skillOp[h].whole

-----------------------------------------------------------------------------
LEMMA FreeRequest == Market!Free \in SkillRequests /\ Market!Free.at = "idle"
BY DEF Market!Free, SkillRequests, Skills, Market!Names

LEMMA InitSkillInv == Market!SkillInit => SkillInv
BY FreeRequest DEF Market!SkillInit, SkillInv, Skills

\* A step of one request that leaves the directories alone.
LEMMA RequestKeepsSkillInv ==
  ASSUME SkillInv, NEW h \in Handlers, NEW r \in SkillRequests,
         skillOp' = [skillOp EXCEPT ![h] = r], UNCHANGED <<dir, heads, lost>>,
         r.at \in {"extract", "resolve", "replace", "move"} => r.src \in Sources,
         r.at \in {"resolve", "replace", "move"} => r.whole
  PROVE  SkillInv'
BY DEF SkillInv

\* The name a request resolves is managed or free, so nobody's own.
LEMMA ResolvedIsUsable ==
  ASSUME NEW s, Market!Usable(Market!Base) \/ Market!Usable(s)
  PROVE  LET to == CHOOSE n \in {Market!Base, s} :
                     Market!Usable(n) /\ (n # Market!Base => ~Market!Usable(Market!Base))
         IN to \in {Market!Base, s} /\ Market!Usable(to)
<1>1. \E n \in {Market!Base, s} :
        Market!Usable(n) /\ (n # Market!Base => ~Market!Usable(Market!Base))
  BY Zenon
<1> QED
  BY <1>1

\* Until it renames: a request pins, extracts, chooses its name.
LEMMA PreparationKeepsSkillInv ==
  ASSUME SkillInv, NEW h \in Handlers,
         \/ \E s \in Sources : Market!Begin(h, s)
         \/ \E n \in Market!Names : Market!Uninstall(h, n)
         \/ Market!Extract(h) \/ Market!ResolveDir(h)
  PROVE  SkillInv'
<1>0. skillOp[h] \in SkillRequests /\ heads \in [Sources -> Int]
  BY DEF SkillInv
<1>1. ASSUME NEW s \in Sources, Market!Begin(h, s) PROVE SkillInv'
  <2> DEFINE r == [Market!Free EXCEPT !.at = "extract", !.src = s, !.sha = heads[s]]
  <2>1. r \in SkillRequests /\ r.at = "extract" /\ r.src = s
    BY <1>0, FreeRequest DEF SkillRequests
  <2>2. skillOp' = [skillOp EXCEPT ![h] = r] /\ UNCHANGED <<dir, heads, lost>>
    BY <1>1 DEF Market!Begin
  <2> HIDE DEF r
  <2> QED
    BY <2>1, <2>2, RequestKeepsSkillInv
<1>2. ASSUME NEW n \in Market!Names, Market!Uninstall(h, n) PROVE SkillInv'
  <2> DEFINE r == [Market!Free EXCEPT !.at = "remove", !.name = n]
  <2>1. r \in SkillRequests /\ r.at = "remove"
    BY FreeRequest DEF SkillRequests
  <2>2. skillOp' = [skillOp EXCEPT ![h] = r] /\ UNCHANGED <<dir, heads, lost>>
    BY <1>2 DEF Market!Uninstall
  <2> HIDE DEF r
  <2> QED
    BY <2>1, <2>2, RequestKeepsSkillInv
<1>3. CASE Market!Extract(h)
  <2>0. skillOp[h].at = "extract" /\ skillOp[h].src \in Sources /\ UNCHANGED <<dir, heads, lost>>
    BY <1>3 DEF Market!Extract, SkillInv
  <2> DEFINE r == [skillOp[h] EXCEPT !.at = "resolve", !.whole = TRUE]
  <2>1. r \in SkillRequests /\ r.at = "resolve" /\ r.src \in Sources /\ r.whole
    BY <1>0, <2>0 DEF SkillRequests
  <2>2. skillOp' = [skillOp EXCEPT ![h] = r] \/ skillOp' = [skillOp EXCEPT ![h] = Market!Free]
    BY <1>0, <1>3 DEF Market!Extract, Market!Valid, Market!Ends, SkillInv, SkillRequests
  <2> HIDE DEF r
  <2> QED
    BY <2>0, <2>1, <2>2, FreeRequest, RequestKeepsSkillInv
<1>4. CASE Market!ResolveDir(h)
  <2>0. /\ skillOp[h].at = "resolve" /\ skillOp[h].src \in Sources /\ skillOp[h].whole
        /\ UNCHANGED <<dir, heads, lost>>
    BY <1>4 DEF Market!ResolveDir, SkillInv
  <2> DEFINE to == CHOOSE n \in {Market!Base, skillOp[h].src} :
                     Market!Usable(n) /\ (n # Market!Base => ~Market!Usable(Market!Base))
             knew == dir[to] = Own /\ lock[to] = NoSkill
             r == [skillOp[h] EXCEPT !.at = "replace", !.name = to, !.knew = knew]
  <2>1. CASE Market!Usable(Market!Base) \/ Market!Usable(skillOp[h].src)
    <3>1. to \in Market!Names /\ Market!Usable(to)
      BY <2>0, <2>1, ResolvedIsUsable DEF Market!Names
    <3>2. knew = FALSE
      BY <3>1, SkillsAssumption DEF Market!Usable
    <3>3. skillOp' = [skillOp EXCEPT ![h] = r]
      BY <1>0, <1>4, <2>1 DEF Market!ResolveDir, SkillInv
    <3> HIDE DEF to, knew
    <3>4. r \in SkillRequests /\ r.at = "replace" /\ r.src \in Sources /\ r.whole
      BY <1>0, <2>0, <3>1, <3>2 DEF SkillRequests
    <3> HIDE DEF r
    <3> QED
      BY <2>0, <3>3, <3>4, RequestKeepsSkillInv
  <2>2. CASE ~(Market!Usable(Market!Base) \/ Market!Usable(skillOp[h].src))
    BY <1>4, <2>0, <2>2, FreeRequest, RequestKeepsSkillInv DEF Market!ResolveDir, Market!Ends
  <2> QED
    BY <2>1, <2>2
<1> QED
  BY <1>1, <1>2, <1>3, <1>4

\* The renames: what is put at the name is whole, what is taken away was not known.
LEMMA RenameKeepsSkillInv ==
  ASSUME SkillInv, NEW h \in Handlers, Market!Replace(h) \/ Market!Move(h) \/ Market!RemoveAll(h)
  PROVE  SkillInv'
<1>0. /\ skillOp[h] \in SkillRequests /\ skillOp \in [Handlers -> SkillRequests]
      /\ dir \in [Market!Names -> Skills] /\ lost = {}
  BY DEF SkillInv
<1>1. skillOp[h].name \in Market!Names /\ dir[skillOp[h].name] \in Skills /\ ~skillOp[h].knew
  BY <1>0 DEF SkillRequests
<1>2. Market!Takes(h) => UNCHANGED lost
  BY <1>0, <1>1 DEF Market!Takes
<1>3. skillOp[h].at \in {"replace", "move"} => Market!Staged(h) \in Skills
  BY <1>0 DEF Market!Staged, SkillInv, SkillRequests, Skills
<1>4. PICK d \in Skills : dir' = [dir EXCEPT ![skillOp[h].name] = d] \/ UNCHANGED dir
  <2>1. NoSkill \in Skills /\ skillOp[h].old \in Skills
    BY <1>0 DEF Skills, SkillRequests
  <2> QED
    BY <1>3, <2>1 DEF Market!Replace, Market!Move, Market!RemoveAll
<1>5. dir' \in [Market!Names -> Skills] /\ UNCHANGED <<heads, lost>>
  BY <1>0, <1>2, <1>4 DEF Market!Replace, Market!Move, Market!RemoveAll
<1>6. PICK r \in SkillRequests :
        /\ skillOp' = [skillOp EXCEPT ![h] = r]
        /\ r.at \in {"replace", "move"} => r.src = skillOp[h].src /\ r.whole = skillOp[h].whole
                                           /\ skillOp[h].at = "replace"
        /\ r.at \notin {"extract", "resolve"}
  <2>1. CASE Market!Move(h) /\ skillOp' = [skillOp EXCEPT ![h] = Market!Free]
    BY <2>1, FreeRequest
  <2>2. CASE skillOp' = [skillOp EXCEPT ![h].at = "put"]
    <3>1. [skillOp[h] EXCEPT !.at = "put"] \in SkillRequests
      BY <1>0 DEF SkillRequests
    <3>2. [skillOp[h] EXCEPT !.at = "put"].at = "put"
      BY <1>0 DEF SkillRequests
    <3> QED
      BY <1>0, <2>2, <3>1, <3>2
  <2>3. CASE skillOp' = [skillOp EXCEPT ![h].at = "delete"]
    <3>1. [skillOp[h] EXCEPT !.at = "delete"] \in SkillRequests
      BY <1>0 DEF SkillRequests
    <3>2. [skillOp[h] EXCEPT !.at = "delete"].at = "delete"
      BY <1>0 DEF SkillRequests
    <3> QED
      BY <1>0, <2>3, <3>1, <3>2
  <2>4. CASE /\ skillOp[h].at = "replace"
             /\ skillOp' = [skillOp EXCEPT ![h].at = "move", ![h].old = dir[skillOp[h].name]]
    <3> DEFINE r == [skillOp[h] EXCEPT !.at = "move", !.old = dir[skillOp[h].name]]
    <3>1. /\ r \in SkillRequests /\ r.src = skillOp[h].src /\ r.whole = skillOp[h].whole
          /\ r.at = "move"
      BY <1>0, <1>1 DEF SkillRequests
    <3>2. skillOp' = [skillOp EXCEPT ![h] = r]
      BY <1>0, <2>4
    <3> HIDE DEF r
    <3> QED
      BY <2>4, <3>1, <3>2
  <2> QED
    BY <2>1, <2>2, <2>3, <2>4
       DEF Market!Replace, Market!Move, Market!RemoveAll, Market!Goes, Market!Ends
<1> QED
  BY <1>0, <1>5, <1>6 DEF SkillInv

LEMMA NextSkillInv == SkillInv /\ [Market!SkillNext]_skillsVars => SkillInv'
<1> SUFFICES ASSUME SkillInv, [Market!SkillNext]_skillsVars PROVE SkillInv'
  OBVIOUS
<1>1. ASSUME NEW h \in Handlers, Market!Put(h) \/ Market!DeleteEntry(h) PROVE SkillInv'
  BY <1>1, FreeRequest, RequestKeepsSkillInv DEF Market!Put, Market!DeleteEntry, Market!Ends
<1>2. ASSUME NEW n \in Market!Names, Market!PlaceOwn(n) \/ Market!TakeAway(n) PROVE SkillInv'
  BY <1>2 DEF Market!PlaceOwn, Market!TakeAway, SkillInv, Skills
<1>3. ASSUME NEW s \in Sources, Market!Push(s) PROVE SkillInv'
  BY <1>3 DEF Market!Push, SkillInv
<1>4. CASE Market!Crash
  BY <1>4, FreeRequest DEF Market!Crash, SkillInv
<1>5. CASE UNCHANGED skillsVars
  BY <1>5 DEF skillsVars, SkillInv
<1> QED
  BY <1>1, <1>2, <1>3, <1>4, <1>5, PreparationKeepsSkillInv, RenameKeepsSkillInv
     DEF Market!SkillNext

LEMMA SkillInvMeans == SkillInv => Market!HandPlacedStays
BY DEF SkillInv, Skills, Market!HandPlacedStays

-----------------------------------------------------------------------------
(* The toolset: a tool nobody else works on and no death hit is in its     *)
(* directory whole or not at all, except while its one request extracts;   *)
(* then it holds the entries that request no longer has left.              *)

Installs ==
  [at : {"idle", "bootstrap", "fetch", "place", "run", "clear", "extract", "unlink", "link",
         "verify", "load", "save", "drop", "clean"},
   tool : Tools \cup {"-"}, how : Tooling!Hows \cup {"-", "reinstall"}, bad : {FALSE},
   left : SUBSET Tooling!Parts, seen : Tooling!Manifest]

Whole(p) == p = {} \/ p = Tooling!Parts

\* The request of h works on t.
WorksOn(h, t) == toolOp[h].at # "idle" /\ toolOp[h].tool = t

\* What the directory of its tool holds at each step of a request.
Holds(h) ==
  IF toolOp[h].at = "extract" THEN pkg[toolOp[h].tool] = Tooling!Parts \ toolOp[h].left
  ELSE Whole(pkg[toolOp[h].tool])

ToolInv ==
  /\ pkg \in [Tools -> SUBSET Tooling!Parts]
  /\ bin \in [Tools -> {"none", "link", "file"}]
  /\ manifest \in Tooling!Manifest
  /\ toolOp \in [Handlers -> Installs]
  /\ boot \in [at : {"up", "read", "drop", "save"}, seen : Tooling!Manifest, found : SUBSET Legacy]
  /\ \A h \in Handlers :
       /\ toolOp[h].at # "idle" => toolOp[h].tool \in Tools
       /\ toolOp[h].at \in {"bootstrap", "fetch", "place", "run", "clear"} =>
            toolOp[h].left = Tooling!Parts
  /\ \A t \in Tools \ torn :
       /\ \A h, g \in Handlers : WorksOn(h, t) /\ WorksOn(g, t) => h = g
       /\ \A h \in Handlers : WorksOn(h, t) => Holds(h)
       /\ Whole(pkg[t]) \/ \E h \in Handlers : WorksOn(h, t)

-----------------------------------------------------------------------------
LEMMA FreeInstall == Tooling!Free \in Installs /\ Tooling!Free.at = "idle"
BY DEF Tooling!Free, Installs, Tooling!Nothing, Tooling!Manifest

LEMMA InitToolInv == Tooling!ToolsetInit => ToolInv
BY FreeInstall
   DEF Tooling!ToolsetInit, ToolInv, Whole, WorksOn, Tooling!Nothing, Tooling!Manifest

\* A request goes on: its tool's directory then holds p, the others' what they held.
LEMMA RequestKeepsToolInv ==
  ASSUME ToolInv, NEW h \in Handlers, NEW r \in Installs, NEW p \in SUBSET Tooling!Parts,
         toolOp[h].at # "idle", toolOp' = [toolOp EXCEPT ![h] = r],
         pkg' = [pkg EXCEPT ![toolOp[h].tool] = p],
         r.at = "idle" \/ r.tool = toolOp[h].tool,
         r.at \in {"bootstrap", "fetch", "place", "run", "clear"} => r.left = Tooling!Parts,
         toolOp[h].tool \notin torn =>
           IF r.at = "extract" THEN p = Tooling!Parts \ r.left ELSE Whole(p),
         bin' \in [Tools -> {"none", "link", "file"}], manifest' \in Tooling!Manifest,
         UNCHANGED <<boot, torn>>
  PROVE  ToolInv'
<1> DEFINE t == toolOp[h].tool
<1>0. /\ toolOp \in [Handlers -> Installs] /\ pkg \in [Tools -> SUBSET Tooling!Parts]
      /\ t \in Tools /\ WorksOn(h, t)
  BY DEF ToolInv, WorksOn
<1>1. /\ toolOp' \in [Handlers -> Installs] /\ pkg' \in [Tools -> SUBSET Tooling!Parts]
      /\ pkg'[t] = p /\ \A u \in Tools \ {t} : pkg'[u] = pkg[u]
      /\ toolOp'[h] = r /\ \A g \in Handlers \ {h} : toolOp'[g] = toolOp[g]
  BY <1>0
<1>2. \A g \in Handlers :
        /\ toolOp'[g].at # "idle" => toolOp'[g].tool \in Tools
        /\ toolOp'[g].at \in {"bootstrap", "fetch", "place", "run", "clear"} =>
             toolOp'[g].left = Tooling!Parts
  BY <1>0, <1>1 DEF ToolInv
<1>3. ASSUME NEW u \in Tools \ torn
      PROVE  /\ \A f, g \in Handlers : WorksOn(f, u)' /\ WorksOn(g, u)' => f = g
             /\ \A g \in Handlers : WorksOn(g, u)' => Holds(g)'
             /\ Whole(pkg'[u]) \/ \E g \in Handlers : WorksOn(g, u)'
  <2>1. \A g \in Handlers : WorksOn(g, u)' => WorksOn(g, u)
    BY <1>0, <1>1 DEF WorksOn
  <2>2. \A f, g \in Handlers : WorksOn(f, u) /\ WorksOn(g, u) => f = g
    BY <1>3 DEF ToolInv
  <2>3. \A g \in Handlers : WorksOn(g, u) => Holds(g)
    BY <1>3 DEF ToolInv
  <2>4. ASSUME NEW g \in Handlers, WorksOn(g, u)' PROVE Holds(g)'
    <3>1. CASE g = h
      BY <1>0, <1>1, <1>3, <2>4, <3>1 DEF Holds, WorksOn
    <3>2. CASE g # h
      <4>1. u # t
        BY <1>0, <2>1, <2>2, <2>4, <3>2
      <4> QED
        BY <1>1, <2>1, <2>3, <2>4, <3>2, <4>1 DEF Holds, WorksOn
    <3> QED
      BY <3>1, <3>2
  <2>5. Whole(pkg'[u]) \/ \E g \in Handlers : WorksOn(g, u)'
    <3>1. CASE u = t /\ r.at = "idle"
      BY <1>1, <1>3, <3>1
    <3>2. CASE u = t /\ r.at # "idle"
      BY <1>1, <3>2 DEF WorksOn
    <3>3. CASE u # t
      <4>1. Whole(pkg[u]) \/ \E g \in Handlers : WorksOn(g, u)
        BY <1>3 DEF ToolInv
      <4>2. \A g \in Handlers : WorksOn(g, u) => g # h
        BY <3>3 DEF WorksOn
      <4> QED
        BY <1>1, <3>3, <4>1, <4>2 DEF WorksOn
    <3> QED
      BY <3>1, <3>2, <3>3
  <2> QED
    BY <2>1, <2>2, <2>4, <2>5
<1> HIDE DEF t
<1> QED
  BY <1>1, <1>2, <1>3 DEF ToolInv

\* A request begins: it is alone with its tool, or the tool counts as torn.
LEMMA BeginKeepsToolInv ==
  ASSUME ToolInv, NEW h \in Handlers, NEW t \in Tools,
         (\E how \in Tooling!Hows : Tooling!Install(h, t, how)) \/ Tooling!Uninstall(h, t)
  PROVE  ToolInv'
<1>0. /\ toolOp \in [Handlers -> Installs] /\ toolOp[h].at = "idle"
      /\ manifest \in Tooling!Manifest
  BY DEF ToolInv, Tooling!Install, Tooling!Uninstall
<1>1. PICK r \in Installs :
        /\ toolOp' = [toolOp EXCEPT ![h] = r] /\ r.tool = t
        /\ (r.at \in {"bootstrap", "fetch"} /\ r.left = Tooling!Parts) \/ r.at = "drop"
  <2>1. ASSUME NEW how \in Tooling!Hows, Tooling!Install(h, t, how)
        PROVE  \E r \in Installs : /\ toolOp' = [toolOp EXCEPT ![h] = r] /\ r.tool = t
                 /\ r.at \in {"bootstrap", "fetch"} /\ r.left = Tooling!Parts
    <3> DEFINE at == IF how = "command" THEN "bootstrap" ELSE "fetch"
               r == [Tooling!Free EXCEPT !.at = at, !.tool = t, !.how = how, !.left = Tooling!Parts]
    <3>1. at \in {"bootstrap", "fetch"}
      OBVIOUS
    <3>2. toolOp' = [toolOp EXCEPT ![h] = r]
      BY <2>1 DEF Tooling!Install
    <3> HIDE DEF at
    <3>3. r \in Installs /\ r.tool = t /\ r.at = at /\ r.left = Tooling!Parts
      BY <3>1, FreeInstall DEF Installs
    <3> HIDE DEF r
    <3> QED
      BY <3>1, <3>2, <3>3
  <2>2. ASSUME Tooling!Uninstall(h, t)
        PROVE  \E r \in Installs : toolOp' = [toolOp EXCEPT ![h] = r] /\ r.tool = t /\ r.at = "drop"
    <3> DEFINE r == [Tooling!Free EXCEPT !.at = "drop", !.tool = t, !.how = manifest[t],
                                         !.seen = manifest]
    <3>1. toolOp' = [toolOp EXCEPT ![h] = r]
      BY <2>2 DEF Tooling!Uninstall
    <3>2. manifest[t] \in Tooling!Hows \cup {"-", "reinstall"}
      BY <1>0 DEF Tooling!Manifest
    <3>3. r \in Installs /\ r.tool = t /\ r.at = "drop"
      BY <1>0, <3>2, FreeInstall DEF Installs
    <3> HIDE DEF r
    <3> QED
      BY <3>1, <3>3
  <2> QED
    BY <2>1, <2>2
<1>2. /\ UNCHANGED <<pkg, bin, manifest, boot>>
      /\ torn' = IF \E g \in Handlers : toolOp[g].tool = t THEN torn \cup {t} ELSE torn
  BY DEF Tooling!Install, Tooling!Uninstall, Tooling!Overlaps
<1>3. /\ toolOp' \in [Handlers -> Installs] /\ toolOp'[h] = r
      /\ \A g \in Handlers \ {h} : toolOp'[g] = toolOp[g]
  BY <1>0, <1>1
<1>4. \A g \in Handlers :
        /\ toolOp'[g].at # "idle" => toolOp'[g].tool \in Tools
        /\ toolOp'[g].at \in {"bootstrap", "fetch", "place", "run", "clear"} =>
             toolOp'[g].left = Tooling!Parts
  BY <1>1, <1>3 DEF ToolInv
<1>5. ASSUME NEW u \in Tools \ torn'
      PROVE  /\ \A f, g \in Handlers : WorksOn(f, u)' /\ WorksOn(g, u)' => f = g
             /\ \A g \in Handlers : WorksOn(g, u)' => Holds(g)'
             /\ Whole(pkg'[u]) \/ \E g \in Handlers : WorksOn(g, u)'
  <2>0. u \in Tools \ torn
    BY <1>2, <1>5
  <2>1. CASE u = t
    <3>1. \A g \in Handlers : ~WorksOn(g, u)
      BY <1>2, <1>5, <2>1 DEF WorksOn
    <3>2. Whole(pkg[u])
      BY <2>0, <3>1 DEF ToolInv
    <3>3. \A g \in Handlers : WorksOn(g, u)' => g = h
      BY <1>3, <3>1 DEF WorksOn
    <3>4. Holds(h)'
      BY <1>1, <1>2, <1>3, <2>1, <3>2 DEF Holds
    <3> QED
      BY <1>2, <3>2, <3>3, <3>4
  <2>2. CASE u # t
    <3>1. \A g \in Handlers : (WorksOn(g, u)' <=> WorksOn(g, u)) /\ (WorksOn(g, u) => g # h)
      BY <1>0, <1>1, <1>3, <2>2 DEF WorksOn
    <3>2. \A g \in Handlers : WorksOn(g, u) => (Holds(g)' <=> Holds(g))
      BY <1>2, <1>3, <3>1 DEF Holds
    <3> QED
      BY <1>2, <2>0, <3>1, <3>2 DEF ToolInv
  <2> QED
    BY <2>1, <2>2
<1> QED
  BY <1>2, <1>3, <1>4, <1>5 DEF ToolInv

\* A request goes on and leaves its tool's directory alone.
LEMMA WalkKeepsToolInv ==
  ASSUME ToolInv, NEW h \in Handlers, NEW r \in Installs,
         toolOp[h].at \notin {"idle", "extract"}, r.at # "extract",
         toolOp' = [toolOp EXCEPT ![h] = r], UNCHANGED <<pkg, boot, torn>>,
         r.at = "idle" \/ r.tool = toolOp[h].tool,
         r.at \in {"bootstrap", "fetch", "place", "run", "clear"} => r.left = Tooling!Parts,
         bin' \in [Tools -> {"none", "link", "file"}], manifest' \in Tooling!Manifest
  PROVE  ToolInv'
<1> DEFINE t == toolOp[h].tool
<1>1. t \in Tools /\ WorksOn(h, t) /\ pkg \in [Tools -> SUBSET Tooling!Parts]
  BY DEF ToolInv, WorksOn
<1>2. t \notin torn => Whole(pkg[t])
  BY <1>1 DEF ToolInv, Holds
<1>3. pkg[t] \in SUBSET Tooling!Parts /\ pkg' = [pkg EXCEPT ![t] = pkg[t]]
  BY <1>1
<1>4. /\ toolOp[h].at # "idle" /\ UNCHANGED <<boot, torn>>
      /\ toolOp[h].tool \notin torn =>
           IF r.at = "extract" THEN pkg[t] = Tooling!Parts \ r.left ELSE Whole(pkg[t])
  BY <1>2
<1> QED
  BY <1>3, <1>4, RequestKeepsToolInv

\* The same by the step it goes to: the next one, or the end.
LEMMA GoesKeepsToolInv ==
  ASSUME ToolInv, NEW h \in Handlers,
         NEW at \in {"verify", "load", "link", "clean"},
         toolOp[h].at \notin {"idle", "extract"},
         Tooling!Goes(h, at) \/ Tooling!Ends(h),
         UNCHANGED <<pkg, boot, torn>>,
         bin' \in [Tools -> {"none", "link", "file"}], manifest' \in Tooling!Manifest
  PROVE  ToolInv'
<1> DEFINE r == [toolOp[h] EXCEPT !.at = at]
<1>0. toolOp \in [Handlers -> Installs]
  BY DEF ToolInv
<1>1. r \in Installs /\ r.at = at /\ r.tool = toolOp[h].tool
  BY <1>0 DEF Installs
<1>2. toolOp' = [toolOp EXCEPT ![h] = r] \/ toolOp' = [toolOp EXCEPT ![h] = Tooling!Free]
  BY <1>0 DEF Tooling!Goes, Tooling!Ends
<1> HIDE DEF r
<1>3. CASE toolOp' = [toolOp EXCEPT ![h] = r]
  <2>1. /\ r.at # "extract" /\ (r.at = "idle" \/ r.tool = toolOp[h].tool)
        /\ r.at \in {"bootstrap", "fetch", "place", "run", "clear"} => r.left = Tooling!Parts
    BY <1>1
  <2> QED
    BY <1>1, <1>3, <2>1, WalkKeepsToolInv
<1>4. CASE toolOp' = [toolOp EXCEPT ![h] = Tooling!Free]
  BY <1>4, FreeInstall, WalkKeepsToolInv
<1> QED
  BY <1>2, <1>3, <1>4

\* Fetching and running installers: what is put on the path is never bad.
LEMMA FetchKeepsToolInv ==
  ASSUME ToolInv, NEW h \in Handlers,
         \/ Tooling!Bootstrap(h) \/ Tooling!Fetch(h) \/ Tooling!Place(h) \/ Tooling!Run(h)
  PROVE  ToolInv'
<1>0. /\ toolOp \in [Handlers -> Installs] /\ toolOp[h] \in Installs
      /\ bin \in [Tools -> {"none", "link", "file"}] /\ manifest \in Tooling!Manifest
      /\ toolOp[h].at \in {"bootstrap", "fetch"} => toolOp[h].left = Tooling!Parts
      /\ toolOp[h].bad = FALSE
  BY DEF ToolInv, Installs
<1>1. /\ UNCHANGED <<pkg, boot, torn, manifest>> /\ toolOp[h].at \in {"bootstrap", "fetch", "place", "run"}
      /\ bin' \in [Tools -> {"none", "link", "file"}] /\ manifest' \in Tooling!Manifest
  BY <1>0 DEF Tooling!Bootstrap, Tooling!Fetch, Tooling!Place, Tooling!Run, Tooling!Bookkeeping
<1>2. CASE Tooling!Bootstrap(h) \/ Tooling!Fetch(h)
  <2>1. PICK at \in {"run", "clear", "place"} :
          \/ toolOp' = [toolOp EXCEPT ![h] = [toolOp[h] EXCEPT !.at = at]]
          \/ toolOp' = [toolOp EXCEPT ![h] = [toolOp[h] EXCEPT !.at = at, !.bad = FALSE]]
          \/ toolOp' = [toolOp EXCEPT ![h] = Tooling!Free]
    BY <1>0, <1>2 DEF Tooling!Bootstrap, Tooling!Fetch, Tooling!Accepted, Tooling!Goes, Tooling!Ends
  <2> DEFINE r == [toolOp[h] EXCEPT !.at = at]
  <2>2. r \in Installs /\ r.at = at /\ r.tool = toolOp[h].tool /\ r.left = toolOp[h].left
    BY <1>0 DEF Installs
  <2>3. [toolOp[h] EXCEPT !.at = at, !.bad = FALSE] = r
    BY <1>0 DEF Installs
  <2> HIDE DEF r
  <2>4. CASE toolOp' = [toolOp EXCEPT ![h] = r]
    <3>1. toolOp[h].at \in {"bootstrap", "fetch"}
      BY <1>2 DEF Tooling!Bootstrap, Tooling!Fetch
    <3>2. toolOp[h].at \notin {"idle", "extract"} /\ r.at # "extract" /\ r.left = Tooling!Parts
      BY <1>0, <2>2, <3>1
    <3> QED
      BY <1>1, <2>2, <2>4, <3>2, WalkKeepsToolInv
  <2>5. CASE toolOp' = [toolOp EXCEPT ![h] = Tooling!Free]
    BY <1>1, <2>5, FreeInstall, WalkKeepsToolInv
  <2> QED
    BY <2>1, <2>3, <2>4, <2>5 DEF r
<1>3. CASE Tooling!Place(h) \/ Tooling!Run(h)
  <2>1. Tooling!Goes(h, "verify") \/ Tooling!Ends(h)
    BY <1>3 DEF Tooling!Place, Tooling!Run
  <2> QED
    BY <1>1, <2>1, GoesKeepsToolInv
<1> QED
  BY <1>2, <1>3

\* The archive: its directory is cleared, filled entry by entry, and cleared on failure.
LEMMA ArchiveKeepsToolInv ==
  ASSUME ToolInv, NEW h \in Handlers,
         Tooling!Clear(h) \/ Tooling!Extract(h) \/ Tooling!Find(h) \/ Tooling!Link(h) \/ Tooling!CleanUp(h)
  PROVE  ToolInv'
<1> DEFINE t == toolOp[h].tool
<1>0. /\ toolOp \in [Handlers -> Installs] /\ toolOp[h] \in Installs /\ pkg \in [Tools -> SUBSET Tooling!Parts]
      /\ bin \in [Tools -> {"none", "link", "file"}] /\ manifest \in Tooling!Manifest
      /\ toolOp[h].at = "clear" => toolOp[h].left = Tooling!Parts
      /\ toolOp[h].bad = FALSE
  BY DEF ToolInv, Installs
<1>1. /\ UNCHANGED <<boot, torn, manifest>> /\ manifest' \in Tooling!Manifest
      /\ toolOp[h].at \in {"clear", "extract", "link", "clean"}
      /\ bin' \in [Tools -> {"none", "link", "file"}]
  BY <1>0 DEF Tooling!Clear, Tooling!Extract, Tooling!Find, Tooling!Link, Tooling!CleanUp, Tooling!Bookkeeping
<1>2. t \in Tools /\ WorksOn(h, t) /\ toolOp[h].at # "idle"
  BY <1>1 DEF ToolInv, WorksOn
<1>3. t \notin torn => Holds(h)
  BY <1>2 DEF ToolInv
<1>4. CASE pkg' = [pkg EXCEPT ![t] = {}] /\ Tooling!Ends(h)
  <2>1. {} \in SUBSET Tooling!Parts /\ Whole({}) /\ Tooling!Free.at \notin {"extract", "bootstrap", "fetch", "place", "run", "clear"}
    BY FreeInstall DEF Whole
  <2> QED
    BY <1>1, <1>2, <1>4, <2>1, FreeInstall, RequestKeepsToolInv DEF Tooling!Ends
<1>5. CASE UNCHANGED pkg /\ Tooling!Ends(h) /\ toolOp[h].at # "extract"
  BY <1>1, <1>2, <1>5, GoesKeepsToolInv
<1>6. CASE Tooling!Clear(h)
  <2> DEFINE r == [toolOp[h] EXCEPT !.at = "extract"]
  <2>1. r \in Installs /\ r.at = "extract" /\ r.tool = t /\ r.left = Tooling!Parts
    BY <1>0, <1>6 DEF Installs, Tooling!Clear
  <2>2. toolOp' = [toolOp EXCEPT ![h] = r] /\ pkg' = [pkg EXCEPT ![t] = {}]
    BY <1>0, <1>6 DEF Tooling!Clear, Tooling!Goes
  <2> HIDE DEF r
  <2>3. {} \in SUBSET Tooling!Parts /\ {} = Tooling!Parts \ r.left
    BY <2>1
  <2> QED
    BY <1>1, <1>2, <2>1, <2>2, <2>3, RequestKeepsToolInv
<1>7. CASE Tooling!Extract(h)
  <2>1. ASSUME NEW x \in toolOp[h].left, pkg' = [pkg EXCEPT ![t] = @ \cup {x}],
               toolOp' = [toolOp EXCEPT ![h].left = @ \ {x}]
        PROVE  ToolInv'
    <3> DEFINE r == [toolOp[h] EXCEPT !.left = toolOp[h].left \ {x}]
               p == pkg[t] \cup {x}
    <3>1. toolOp[h].at = "extract" /\ toolOp[h].left \subseteq Tooling!Parts /\ x \in Tooling!Parts
      BY <1>0, <1>7 DEF Tooling!Extract, Installs
    <3>2. r \in Installs /\ r.at = "extract" /\ r.tool = t /\ r.left = toolOp[h].left \ {x}
      BY <1>0, <3>1 DEF Installs
    <3>3. toolOp' = [toolOp EXCEPT ![h] = r] /\ pkg' = [pkg EXCEPT ![t] = p]
      BY <1>0, <1>2, <2>1
    <3>4. p \in SUBSET Tooling!Parts
      BY <1>0, <1>2, <3>1
    <3>5. t \notin torn => p = Tooling!Parts \ r.left
      BY <1>3, <3>1, <3>2 DEF Holds
    <3> HIDE DEF r, p
    <3> QED
      BY <1>1, <1>2, <3>2, <3>3, <3>4, <3>5, RequestKeepsToolInv
  <2> QED
    BY <1>4, <1>7, <2>1 DEF Tooling!Extract, Tooling!Salvaged
<1>8. CASE Tooling!Find(h)
  <2>1. CASE UNCHANGED pkg /\ Tooling!Goes(h, "unlink")
    <3> DEFINE r == [toolOp[h] EXCEPT !.at = "unlink"]
    <3>1. r \in Installs /\ r.at = "unlink" /\ r.tool = t
      BY <1>0 DEF Installs
    <3>2. toolOp' = [toolOp EXCEPT ![h] = r] /\ pkg' = [pkg EXCEPT ![t] = pkg[t]] /\ pkg[t] \in SUBSET Tooling!Parts
      BY <1>0, <1>2, <2>1 DEF Tooling!Goes
    <3>3. t \notin torn => Whole(pkg[t])
      BY <1>3, <1>8 DEF Holds, Tooling!Find, Whole
    <3> HIDE DEF r
    <3> QED
      BY <1>1, <1>2, <3>1, <3>2, <3>3, RequestKeepsToolInv
  <2> QED
    BY <1>4, <1>8, <2>1 DEF Tooling!Find
<1>9. CASE Tooling!Link(h)
  <2>1. CASE UNCHANGED pkg /\ Tooling!Goes(h, "verify")
    <3>1. toolOp[h].at \notin {"idle", "extract"}
      BY <1>9 DEF Tooling!Link
    <3> QED
      BY <1>1, <2>1, <3>1, GoesKeepsToolInv
  <2> QED
    BY <1>4, <1>9, <2>1 DEF Tooling!Link
<1>10. CASE Tooling!CleanUp(h)
  BY <1>4, <1>5, <1>10 DEF Tooling!CleanUp
<1> QED
  BY <1>6, <1>7, <1>8, <1>9, <1>10

\* The links and the manifest.
LEMMA RecordKeepsToolInv ==
  ASSUME ToolInv, NEW h \in Handlers,
         \/ Tooling!Unlink(h) \/ Tooling!Verify(h) \/ Tooling!Load(h) \/ Tooling!RecordInstall(h)
         \/ Tooling!RemoveEntry(h)
  PROVE  ToolInv'
<1>0. /\ toolOp \in [Handlers -> Installs] /\ toolOp[h] \in Installs
      /\ bin \in [Tools -> {"none", "link", "file"}] /\ manifest \in Tooling!Manifest
      /\ toolOp[h].seen \in Tooling!Manifest /\ toolOp[h].how \in Tooling!Hows \cup {"-", "reinstall"}
  BY DEF ToolInv, Installs
<1>1. /\ UNCHANGED <<pkg, boot, torn>> /\ toolOp[h].at \notin {"idle", "extract"}
      /\ bin' \in [Tools -> {"none", "link", "file"}]
  BY <1>0 DEF Tooling!Unlink, Tooling!Verify, Tooling!Load, Tooling!RecordInstall, Tooling!RemoveEntry,
              Tooling!Bookkeeping
<1>2. manifest' \in Tooling!Manifest
  <2>1. [toolOp[h].seen EXCEPT ![toolOp[h].tool] = toolOp[h].how] \in Tooling!Manifest
    BY <1>0 DEF Tooling!Manifest
  <2>2. [toolOp[h].seen EXCEPT ![toolOp[h].tool] = "-"] \in Tooling!Manifest
    BY <1>0 DEF Tooling!Manifest
  <2>3. CASE Tooling!RecordInstall(h)
    BY <2>1, <2>3 DEF Tooling!RecordInstall
  <2>4. CASE Tooling!RemoveEntry(h)
    BY <2>2, <2>4 DEF Tooling!RemoveEntry
  <2>5. CASE Tooling!Unlink(h) \/ Tooling!Verify(h) \/ Tooling!Load(h)
    BY <1>0, <2>5 DEF Tooling!Unlink, Tooling!Verify, Tooling!Load, Tooling!Bookkeeping
  <2> QED
    BY <2>3, <2>4, <2>5
<1>3. CASE Tooling!Unlink(h) \/ Tooling!Verify(h) \/ Tooling!RecordInstall(h) \/ Tooling!RemoveEntry(h)
  <2>1. PICK at \in {"link", "load", "clean"} : Tooling!Goes(h, at) \/ Tooling!Ends(h)
    BY <1>3 DEF Tooling!Unlink, Tooling!Verify, Tooling!RecordInstall, Tooling!RemoveEntry
  <2> QED
    BY <1>1, <1>2, <2>1, GoesKeepsToolInv
<1>4. CASE Tooling!Load(h)
  <2> DEFINE r == [toolOp[h] EXCEPT !.at = "save", !.seen = manifest]
  <2>1. r \in Installs /\ r.at = "save" /\ r.tool = toolOp[h].tool
    BY <1>0 DEF Installs
  <2>2. toolOp' = [toolOp EXCEPT ![h] = r]
    BY <1>0, <1>4 DEF Tooling!Load
  <2> HIDE DEF r
  <2> QED
    BY <1>1, <1>2, <2>1, <2>2, WalkKeepsToolInv
<1> QED
  BY <1>3, <1>4

\* The migration before the daemon serves touches the manifest only, a death
\* gives every tool a request worked on up.
LEMMA StartKeepsToolInv ==
  ASSUME ToolInv,
         \/ Tooling!ReadManifest \/ Tooling!SaveMigrated \/ Tooling!Crash
         \/ \E t \in Legacy : Tooling!DropLegacy(t)
  PROVE  ToolInv'
<1>1. CASE Tooling!ReadManifest
  BY <1>1 DEF Tooling!ReadManifest, ToolInv, WorksOn, Holds
<1>2. CASE Tooling!SaveMigrated
  <2>1. manifest' \in Tooling!Manifest
    BY <1>2 DEF Tooling!SaveMigrated, ToolInv, Tooling!Manifest
  <2>2. boot' \in [at : {"up", "read", "drop", "save"}, seen : Tooling!Manifest, found : SUBSET Legacy]
    BY <1>2 DEF Tooling!SaveMigrated, ToolInv
  <2> QED
    BY <1>2, <2>1, <2>2 DEF Tooling!SaveMigrated, ToolInv, WorksOn, Holds
<1>3. ASSUME NEW t \in Legacy, Tooling!DropLegacy(t) PROVE ToolInv'
  <2>1. boot' \in [at : {"up", "read", "drop", "save"}, seen : Tooling!Manifest, found : SUBSET Legacy]
    <3>0. boot \in [at : {"up", "read", "drop", "save"}, seen : Tooling!Manifest, found : SUBSET Legacy]
      BY DEF ToolInv
    <3>1. PICK at \in {"up", "drop", "save"}, found \in SUBSET Legacy :
            boot' = [boot EXCEPT !.at = at, !.found = found]
      <4>1. boot.found \cup {t} \in SUBSET Legacy /\ {} \in SUBSET Legacy
        BY <3>0
      <4>2. (IF legacy = {t} THEN "save" ELSE "drop") \in {"up", "drop", "save"}
        OBVIOUS
      <4> QED
        BY <1>3, <4>1, <4>2 DEF Tooling!DropLegacy
    <3> QED
      BY <3>0, <3>1
  <2>2. UNCHANGED <<pkg, bin, manifest, toolOp, torn>>
    BY <1>3 DEF Tooling!DropLegacy
  <2> QED
    BY <2>1, <2>2 DEF ToolInv, WorksOn, Holds
<1>4. CASE Tooling!Crash
  <2>1. toolOp' = [h \in Handlers |-> Tooling!Free]
    BY <1>4 DEF Tooling!Crash
  <2>2. toolOp' \in [Handlers -> Installs] /\ \A h \in Handlers : toolOp'[h].at = "idle"
    BY <2>1, FreeInstall
  <2>3. \A t \in Tools \ torn' : t \notin torn /\ \A h \in Handlers : ~WorksOn(h, t)
    BY <1>4 DEF Tooling!Crash, WorksOn
  <2>4. \A t \in Tools \ torn' : Whole(pkg'[t])
    BY <1>4, <2>3 DEF Tooling!Crash, ToolInv
  <2>5. \A t \in Tools, h \in Handlers : ~WorksOn(h, t)'
    BY <2>2 DEF WorksOn
  <2>6. boot' \in [at : {"up", "read", "drop", "save"}, seen : Tooling!Manifest, found : SUBSET Legacy]
    BY <1>4 DEF Tooling!Crash, Tooling!Nothing, Tooling!Manifest
  <2> QED
    BY <1>4, <2>2, <2>4, <2>5, <2>6 DEF Tooling!Crash, ToolInv
<1> QED
  BY <1>1, <1>2, <1>3, <1>4

LEMMA NextToolInv == ToolInv /\ [Tooling!ToolsetNext]_toolsetVars => ToolInv'
<1> SUFFICES ASSUME ToolInv, [Tooling!ToolsetNext]_toolsetVars PROVE ToolInv'
  OBVIOUS
<1>1. CASE UNCHANGED toolsetVars
  BY <1>1 DEF toolsetVars, ToolInv, WorksOn, Holds
<1> QED
  BY <1>1, BeginKeepsToolInv, FetchKeepsToolInv, ArchiveKeepsToolInv, RecordKeepsToolInv,
     StartKeepsToolInv DEF Tooling!ToolsetNext

LEMMA ToolInvMeans == ToolInv => Tooling!FailedLeavesNothing
BY DEF ToolInv, Whole, WorksOn, Tooling!FailedLeavesNothing

-----------------------------------------------------------------------------
(* The updater, where a binary is replaced in one step: who is at work     *)
(* holds update.lock, so the ".new" file is its own; and with no failure   *)
(* on the way, the two binaries differ only while somebody has replaced    *)
(* the first and holds the lock, dead or alive.                            *)

Appliances ==
  [at : {"idle", "lock", "fetch", "open", "copy", "rename", "done"}, ver : Releases, bin : 1..2,
   helper : {FALSE}]

Working(a) == applier[a].at \in {"fetch", "open", "copy", "rename"}

Installing(a) ==
  /\ Working(a) => updateLock = a
  /\ applier[a].at \in {"idle", "lock", "fetch"} => applier[a].bin = 1
  /\ applier[a].at = "copy" => new[Update!Bin(a)] = [ver |-> applier[a].ver, whole |-> FALSE]
  /\ applier[a].at = "rename" => new[Update!Bin(a)] = Update!Whole(applier[a].ver)
  /\ Working(a) /\ applier[a].bin = 2 => disk["podiom"] = Update!Whole(applier[a].ver)

UpdateInv ==
  /\ windows \in BOOLEAN
  /\ ~windows =>
       /\ applier \in [Update!Appliers -> Appliances]
       /\ disk \in [{"podiom", "podiomd"} -> [ver : Releases, whole : {TRUE}]]
       /\ new \in [{"podiom", "podiomd"} -> Update!File]
       /\ \A a \in Update!Appliers : Installing(a)
       /\ mishaps \in Nat
       /\ mishaps = 0 /\ updateLock = None => disk["podiom"] = disk["podiomd"]

-----------------------------------------------------------------------------
LEMMA Binaries ==
  /\ Update!Bins[1] = "podiom" /\ Update!Bins[2] = "podiomd"
  /\ \A k \in 1..2 : Update!Bins[k] \in {"podiom", "podiomd"}
BY DEF Update!Bins

LEMMA IdleApplier == Update!Idle \in Appliances /\ Update!Idle.at = "idle" /\ Update!Idle.bin = 1
BY ReleasesAssumption DEF Update!Idle, Appliances

LEMMA InitUpdateInv == Update!UpdaterInit => UpdateInv
<1> SUFFICES ASSUME Update!UpdaterInit PROVE UpdateInv
  OBVIOUS
<1>1. Update!Whole(1) \in [ver : Releases, whole : {TRUE}] /\ Update!NoFile \in Update!File
  BY ReleasesAssumption DEF Update!Whole, Update!NoFile, Update!File
<1>2. applier \in [Update!Appliers -> Appliances] /\ \A a \in Update!Appliers : applier[a] = Update!Idle
  BY IdleApplier DEF Update!UpdaterInit
<1>3. \A a \in Update!Appliers : Installing(a)
  BY <1>2, IdleApplier DEF Installing, Working
<1> QED
  BY <1>1, <1>2, <1>3 DEF Update!UpdaterInit, UpdateInv

\* A step of an applier at work: the others are not, for it holds the lock.
LEMMA WorkerKeepsUpdateInv ==
  ASSUME UpdateInv, ~windows, UNCHANGED windows,
         NEW a \in Update!Appliers, NEW r \in Appliances,
         Working(a), applier' = [applier EXCEPT ![a] = r], Installing(a)',
         disk' \in [{"podiom", "podiomd"} -> [ver : Releases, whole : {TRUE}]],
         new' \in [{"podiom", "podiomd"} -> Update!File], mishaps' \in Nat,
         mishaps' = 0 /\ updateLock' = None => disk'["podiom"] = disk'["podiomd"]
  PROVE  UpdateInv'
<1>0. applier \in [Update!Appliers -> Appliances]
  BY DEF UpdateInv
<1>1. \A g \in Update!Appliers : Working(g) => g = a
  BY DEF UpdateInv, Installing
<1>2. ASSUME NEW g \in Update!Appliers \ {a} PROVE Installing(g)'
  <2>1. ~Working(g) /\ applier'[g] = applier[g] /\ Installing(g)
    BY <1>0, <1>1, <1>2 DEF UpdateInv
  <2> QED
    BY <2>1 DEF Installing, Working
<1>3. \A g \in Update!Appliers : Installing(g)'
  BY <1>2
<1>4. applier' \in [Update!Appliers -> Appliances]
  BY <1>0
<1> QED
  BY <1>3, <1>4 DEF UpdateInv

\* A step that installs nothing: every applier stays as it is, or is not at work, or just
\* took the lock that was free.
LEMMA QuietKeepsUpdateInv ==
  ASSUME UpdateInv, ~windows, UNCHANGED <<windows, disk, new>>,
         applier' \in [Update!Appliers -> Appliances],
         \A g \in Update!Appliers : \/ applier'[g] = applier[g] /\ (Working(g) => updateLock' = g)
                                    \/ ~Working(g)' /\ (applier'[g].at # "done" => applier'[g].bin = 1)
                                    \/ applier'[g].at = "fetch" /\ applier'[g].bin = 1 /\ updateLock' = g,
         mishaps' \in Nat,
         mishaps' = 0 /\ updateLock' = None => mishaps = 0 /\ updateLock = None
  PROVE  UpdateInv'
<1>1. ASSUME NEW g \in Update!Appliers PROVE Installing(g)'
  <2>1. CASE applier'[g] = applier[g] /\ (Working(g) => updateLock' = g)
    BY <2>1 DEF UpdateInv, Installing, Working, Update!Bin
  <2>2. CASE ~Working(g)' /\ (applier'[g].at # "done" => applier'[g].bin = 1)
    BY <2>2 DEF Installing, Working
  <2>3. CASE applier'[g].at = "fetch" /\ applier'[g].bin = 1 /\ updateLock' = g
    BY <2>3 DEF Installing, Working
  <2> QED
    BY <2>1, <2>2, <2>3
<1> QED
  BY <1>1 DEF UpdateInv

\* What the daemon served is cut, and with it no applier at work goes on.
LEMMA CutKeepsUpdateInv ==
  ASSUME UpdateInv, ~windows, UNCHANGED <<windows, disk, new, updateLock>>, applier' = Update!Cut,
         mishaps' = mishaps \/ mishaps' = mishaps + 1
  PROVE  UpdateInv'
<1>0. applier \in [Update!Appliers -> Appliances] /\ mishaps \in Nat
  BY DEF UpdateInv
<1>1. ASSUME NEW g \in Update!Appliers
      PROVE  Update!Cut[g] \in Appliances /\ (Update!Cut[g] = applier[g] \/ Update!Cut[g].at = "done")
  BY <1>0 DEF Update!Cut, Appliances
<1>2. applier' \in [Update!Appliers -> Appliances]
  BY <1>1 DEF Update!Cut
<1>3. \A g \in Update!Appliers : Working(g) => updateLock = g
  BY DEF UpdateInv, Installing
<1>4. mishaps' \in Nat /\ (mishaps' = 0 => mishaps = 0)
  BY <1>0
<1>5. \A g \in Update!Appliers : \/ applier'[g] = applier[g] /\ (Working(g) => updateLock' = g)
                                 \/ ~Working(g)' /\ (applier'[g].at # "done" => applier'[g].bin = 1)
                                 \/ applier'[g].at = "fetch" /\ applier'[g].bin = 1 /\ updateLock' = g
  BY <1>1, <1>3 DEF Working
<1> QED
  BY <1>2, <1>4, <1>5, QuietKeepsUpdateInv

\* Up to the lock, and where a step fails.
LEMMA LockKeepsUpdateInv ==
  ASSUME UpdateInv, ~windows, NEW a \in Update!Appliers,
         \/ \E v \in Releases, force \in BOOLEAN : Update!Check(a, v, force)
         \/ Update!AcquireLock(a)
  PROVE  UpdateInv'
<1>0. applier \in [Update!Appliers -> Appliances] /\ mishaps \in Nat /\ applier[a] \in Appliances
  BY DEF UpdateInv
<1>1. \A g \in Update!Appliers : Working(g) => updateLock = g
  BY DEF UpdateInv, Installing
<1>2. ASSUME NEW v \in Releases, NEW force \in BOOLEAN, Update!Check(a, v, force) PROVE UpdateInv'
  <2> DEFINE r == [Update!Idle EXCEPT !.at = "lock", !.ver = v]
  <2>1. r \in Appliances /\ r.at = "lock" /\ r.bin = 1
    BY IdleApplier DEF Appliances
  <2>2. applier' = [applier EXCEPT ![a] = r] /\ UNCHANGED <<windows, disk, new, updateLock, mishaps>>
    BY <1>2 DEF Update!Check
  <2> HIDE DEF r
  <2>3. /\ applier' \in [Update!Appliers -> Appliances] /\ applier'[a].at = "lock" /\ applier'[a].bin = 1
        /\ \A g \in Update!Appliers \ {a} : applier'[g] = applier[g]
    BY <1>0, <2>1, <2>2
  <2>4. \A g \in Update!Appliers : \/ applier'[g] = applier[g] /\ (Working(g) => updateLock' = g)
                                   \/ ~Working(g)' /\ (applier'[g].at # "done" => applier'[g].bin = 1)
                                   \/ applier'[g].at = "fetch" /\ applier'[g].bin = 1 /\ updateLock' = g
    BY <1>1, <2>2, <2>3 DEF Working
  <2> QED
    BY <1>0, <2>2, <2>3, <2>4, QuietKeepsUpdateInv
<1>3. CASE Update!AcquireLock(a) /\ updateLock # None
  <2>1. [applier[a] EXCEPT !.at = "done"] \in Appliances /\ [applier[a] EXCEPT !.at = "done"].at = "done"
    BY <1>0 DEF Appliances
  <2>2. /\ applier' = [applier EXCEPT ![a] = [applier[a] EXCEPT !.at = "done"]]
        /\ UNCHANGED <<windows, disk, new, updateLock, mishaps>>
    BY <1>0, <1>3 DEF Update!AcquireLock, Update!Locked, Update!Now
  <2>3. /\ applier' \in [Update!Appliers -> Appliances] /\ applier'[a].at = "done"
        /\ \A g \in Update!Appliers \ {a} : applier'[g] = applier[g]
    BY <1>0, <2>1, <2>2
  <2>4. \A g \in Update!Appliers : \/ applier'[g] = applier[g] /\ (Working(g) => updateLock' = g)
                                   \/ ~Working(g)' /\ (applier'[g].at # "done" => applier'[g].bin = 1)
                                   \/ applier'[g].at = "fetch" /\ applier'[g].bin = 1 /\ updateLock' = g
    BY <1>1, <2>2, <2>3 DEF Working
  <2> QED
    BY <1>0, <2>2, <2>3, <2>4, QuietKeepsUpdateInv
<1>4. CASE Update!AcquireLock(a) /\ updateLock = None
  <2>1. /\ [applier[a] EXCEPT !.at = "fetch"] \in Appliances /\ [applier[a] EXCEPT !.at = "fetch"].at = "fetch"
        /\ [applier[a] EXCEPT !.at = "fetch"].bin = applier[a].bin
    BY <1>0 DEF Appliances
  <2>2. /\ applier' = [applier EXCEPT ![a] = [applier[a] EXCEPT !.at = "fetch"]]
        /\ UNCHANGED <<windows, disk, new, mishaps>> /\ updateLock' = a
    BY <1>0, <1>4 DEF Update!AcquireLock, Update!Locked, Update!Now
  <2>3. \A g \in Update!Appliers : ~Working(g)
    BY <1>1, <1>4, NoneAssumption DEF Update!Appliers
  <2>4. applier[a].bin = 1 /\ a # None
    BY <1>4, NoneAssumption DEF UpdateInv, Installing, Update!AcquireLock, Update!Appliers
  <2>5. /\ applier' \in [Update!Appliers -> Appliances] /\ applier'[a].at = "fetch" /\ applier'[a].bin = 1
        /\ \A g \in Update!Appliers \ {a} : applier'[g] = applier[g]
    BY <1>0, <2>1, <2>2, <2>4
  <2>6. \A g \in Update!Appliers : \/ applier'[g] = applier[g] /\ (Working(g) => updateLock' = g)
                                   \/ ~Working(g)' /\ (applier'[g].at # "done" => applier'[g].bin = 1)
                                   \/ applier'[g].at = "fetch" /\ applier'[g].bin = 1 /\ updateLock' = g
    BY <2>2, <2>3, <2>5 DEF Working
  <2>7. mishaps' \in Nat /\ updateLock' # None
    BY <1>0, <2>2, <2>4
  <2> QED
    BY <2>2, <2>5, <2>6, <2>7, QuietKeepsUpdateInv
<1> QED
  BY <1>2, <1>3, <1>4

LEMMA FailKeepsUpdateInv ==
  ASSUME UpdateInv, ~windows, UNCHANGED <<windows, disk>>, NEW a \in Update!Appliers, Working(a),
         Update!Fails(a), new' \in [{"podiom", "podiomd"} -> Update!File]
  PROVE  UpdateInv'
<1>0. /\ applier[a] \in Appliances /\ applier \in [Update!Appliers -> Appliances] /\ mishaps \in Nat
      /\ disk \in [{"podiom", "podiomd"} -> [ver : Releases, whole : {TRUE}]]
  BY DEF UpdateInv
<1>1. /\ [applier[a] EXCEPT !.at = "done"] \in Appliances /\ [applier[a] EXCEPT !.at = "done"].at = "done"
      /\ applier' = [applier EXCEPT ![a] = [applier[a] EXCEPT !.at = "done"]]
  BY <1>0 DEF Appliances, Update!Fails, Update!Now
<1>2. Installing(a)'
  BY <1>0, <1>1 DEF Installing, Working
<1>3. mishaps' \in Nat /\ mishaps' # 0
  BY <1>0 DEF Update!Fails
<1> QED
  BY <1>0, <1>1, <1>2, <1>3, WorkerKeepsUpdateInv

\* One binary after the other: the ".new" file is what this applier wrote, so the rename
\* puts a whole binary of its release in place, and the second one makes them equal.
LEMMA InstallKeepsUpdateInv ==
  ASSUME UpdateInv, ~windows, NEW a \in Update!Appliers,
         Update!Fetched(a) \/ Update!Open(a) \/ Update!Copy(a) \/ Update!Rename(a)
  PROVE  UpdateInv'
<1> DEFINE b == Update!Bin(a)
           v == applier[a].ver
<1>0. /\ applier[a] \in Appliances /\ applier \in [Update!Appliers -> Appliances] /\ mishaps \in Nat
      /\ disk \in [{"podiom", "podiomd"} -> [ver : Releases, whole : {TRUE}]]
      /\ new \in [{"podiom", "podiomd"} -> Update!File] /\ Installing(a) /\ Working(a)
  BY DEF UpdateInv, Working, Update!Fetched, Update!Open, Update!Copy, Update!Rename
<1>1. /\ v \in Releases /\ v # 0 /\ applier[a].bin \in 1..2
      /\ b \in {"podiom", "podiomd"} /\ updateLock = a /\ a # None
  BY <1>0, Binaries, ReleasesAssumption, NoneAssumption
     DEF Appliances, Update!Bin, Installing, Update!Appliers
<1>2. UNCHANGED <<windows, mishaps>>
  BY DEF Update!Fetched, Update!Open, Update!Copy, Update!Rename
<1>3. CASE Update!Fetched(a)
  <2> DEFINE r == [applier[a] EXCEPT !.at = "open", !.helper = FALSE]
  <2>0. applier[a].at = "fetch" /\ applier[a].bin = 1
    BY <1>0, <1>3 DEF Installing, Update!Fetched
  <2>1. r \in Appliances /\ r.at = "open" /\ r.bin = 1 /\ r.ver = v
    BY <1>0, <2>0 DEF Appliances
  <2>2. applier' = [applier EXCEPT ![a] = r] /\ UNCHANGED <<disk, new, updateLock>>
    <3>1. windows = FALSE
      BY DEF UpdateInv
    <3> QED
      BY <1>0, <1>3, <3>1 DEF Update!Fetched
  <2> HIDE DEF r
  <2>3. Installing(a)'
    BY <1>0, <1>1, <2>1, <2>2 DEF Installing, Working
  <2> QED
    BY <1>0, <1>1, <1>2, <2>1, <2>2, <2>3, WorkerKeepsUpdateInv
<1>4. CASE Update!Open(a)
  <2> DEFINE r == [applier[a] EXCEPT !.at = "copy"]
             f == [ver |-> v, whole |-> FALSE]
  <2>1. r \in Appliances /\ r.at = "copy" /\ r.bin = applier[a].bin /\ r.ver = v
    BY <1>0 DEF Appliances
  <2>2. /\ applier' = [applier EXCEPT ![a] = r] /\ UNCHANGED <<disk, updateLock>>
        /\ new' = [new EXCEPT ![b] = f]
    BY <1>0, <1>4 DEF Update!Open, Update!Now
  <2>3. f \in Update!File
    BY <1>1 DEF Update!File
  <2> HIDE DEF r, f
  <2>4. new' \in [{"podiom", "podiomd"} -> Update!File] /\ new'[b] = f
    BY <1>0, <1>1, <2>2, <2>3
  <2>5. applier'[a] = r
    BY <1>0, <2>2
  <2>6. Update!Bin(a)' = b
    BY <2>1, <2>5 DEF Update!Bin
  <2>7. Installing(a)'
    BY <1>0, <1>1, <2>1, <2>2, <2>4, <2>5, <2>6 DEF Installing, Working, f
  <2> QED
    BY <1>0, <1>1, <1>2, <2>1, <2>2, <2>4, <2>7, WorkerKeepsUpdateInv
<1>5. CASE Update!Copy(a)
  <2> DEFINE r == [applier[a] EXCEPT !.at = "rename"]
             f == Update!Whole(v)
  <2>1. r \in Appliances /\ r.at = "rename" /\ r.bin = applier[a].bin /\ r.ver = v
    BY <1>0 DEF Appliances
  <2>2. applier' = [applier EXCEPT ![a] = r] /\ UNCHANGED <<disk, updateLock>>
    BY <1>0, <1>5 DEF Update!Copy, Update!Now
  <2>3. f \in Update!File
    BY <1>1 DEF Update!File, Update!Whole
  <2>4. new[b] = [ver |-> v, whole |-> FALSE]
    BY <1>0, <1>5 DEF Installing, Update!Copy
  <2>5. new'[b] = f /\ new' \in [{"podiom", "podiomd"} -> Update!File]
    <3>1. new' = [new EXCEPT ![b] = [new[b] EXCEPT !.whole = TRUE]]
      BY <1>0, <1>1, <1>5, <2>4 DEF Update!Copy
    <3>2. [new[b] EXCEPT !.whole = TRUE] = f
      <4> DEFINE e == [new[b] EXCEPT !.whole = TRUE]
      <4>1. new[b] \in Update!File /\ new[b].ver = v
        BY <1>0, <1>1, <2>4
      <4> HIDE DEF b
      <4>2. e \in Update!File /\ e.ver = v /\ e.whole = TRUE
        BY <4>1 DEF Update!File
      <4> HIDE DEF e
      <4>3. e = [ver |-> e.ver, whole |-> e.whole]
        BY <4>2 DEF Update!File
      <4> QED
        BY <4>2, <4>3 DEF e, Update!Whole
    <3> HIDE DEF b, f
    <3> QED
      BY <1>0, <1>1, <2>3, <3>1, <3>2
  <2> HIDE DEF r, f
  <2>6. applier'[a] = r
    BY <1>0, <2>2
  <2>7. Update!Bin(a)' = b
    BY <2>1, <2>6 DEF Update!Bin
  <2>8. Installing(a)'
    BY <1>0, <1>1, <2>1, <2>2, <2>5, <2>6, <2>7 DEF Installing, Working, f
  <2> QED
    BY <1>0, <1>1, <1>2, <2>1, <2>2, <2>5, <2>8, WorkerKeepsUpdateInv
<1>6. CASE Update!Rename(a)
  <2>1. new[b] = Update!Whole(v) /\ Update!Whole(v) \in [ver : Releases, whole : {TRUE}]
    BY <1>0, <1>1, <1>6 DEF Installing, Update!Rename, Update!Whole
  <2>2. Update!NoFile \in Update!File
    BY DEF Update!NoFile, Update!File
  <2>3. /\ disk' = [disk EXCEPT ![b] = Update!Whole(v)]
        /\ disk' \in [{"podiom", "podiomd"} -> [ver : Releases, whole : {TRUE}]]
        /\ new' \in [{"podiom", "podiomd"} -> Update!File]
    BY <1>0, <1>1, <1>6, <2>1, <2>2 DEF Update!Rename
  <2>4. CASE applier[a].bin = 1
    <3> DEFINE r == [applier[a] EXCEPT !.at = "open", !.bin = 2]
    <3>1. r \in Appliances /\ r.at = "open" /\ r.bin = 2 /\ r.ver = v
      <4>1. 2 \in 1..2 /\ applier[a] \in Appliances
        BY <1>0
      <4> QED
        BY <4>1 DEF Appliances
    <3>2. applier' = [applier EXCEPT ![a] = r] /\ UNCHANGED updateLock
      BY <1>0, <1>6, <2>4 DEF Update!Rename
    <3> HIDE DEF r
    <3>3. disk'["podiom"] = Update!Whole(v)
      BY <1>0, <2>3, <2>4, Binaries DEF Update!Bin
    <3>4. applier'[a] = r
      BY <1>0, <3>2
    <3>5. Installing(a)'
      BY <1>1, <3>1, <3>2, <3>3, <3>4 DEF Installing, Working, Update!Whole
    <3> QED
      BY <1>0, <1>1, <1>2, <2>3, <3>1, <3>2, <3>5, WorkerKeepsUpdateInv
  <2>5. CASE applier[a].bin # 1
    <3> DEFINE r == [applier[a] EXCEPT !.at = "done"]
    <3>1. r \in Appliances /\ r.at = "done"
      <4>1. applier[a] \in Appliances
        BY <1>0
      <4> QED
        BY <4>1 DEF Appliances
    <3>2. applier' = [applier EXCEPT ![a] = r]
      BY <1>0, <1>6, <2>5 DEF Update!Rename, Update!Now
    <3> HIDE DEF r
    <3>3. applier[a].bin = 2 /\ b = "podiomd"
      BY <1>1, <2>5, Binaries DEF Update!Bin
    <3>4. disk["podiom"] = Update!Whole(v)
      BY <1>0, <3>3 DEF Installing
    <3>5. disk'["podiom"] = disk'["podiomd"]
      BY <1>0, <2>3, <3>3, <3>4
    <3>6. applier'[a].at = "done"
      BY <1>0, <3>1, <3>2
    <3>7. Installing(a)'
      BY <3>6 DEF Installing, Working
    <3> QED
      BY <1>0, <1>2, <2>3, <3>1, <3>2, <3>5, <3>7, WorkerKeepsUpdateInv
  <2> QED
    BY <2>4, <2>5
<1> QED
  BY <1>3, <1>4, <1>5, <1>6

LEMMA NextUpdateInv == UpdateInv /\ [Update!UpdaterNext]_updaterVars => UpdateInv'
<1> SUFFICES ASSUME UpdateInv, [Update!UpdaterNext]_updaterVars PROVE UpdateInv'
  OBVIOUS
<1>1. UNCHANGED windows
  BY DEF Update!UpdaterNext, updaterVars, Update!Check, Update!AcquireLock, Update!Fetched,
         Update!FetchFails, Update!Open, Update!Copy, Update!Rename, Update!InstallFails,
         Update!Refused, Update!ExitAfterUpdate, Update!StartDaemon, Update!Die
<1>2. CASE windows
  BY <1>1, <1>2 DEF UpdateInv
<1>3. CASE ~windows
  <2>0. new \in [{"podiom", "podiomd"} -> Update!File] /\ Update!NoFile \in Update!File
    BY <1>3 DEF UpdateInv, Update!NoFile, Update!File
  <2>1. ASSUME NEW a \in Update!Appliers, Update!FetchFails(a) \/ Update!InstallFails(a) PROVE UpdateInv'
    <3>1. Working(a) /\ Update!Fails(a) /\ UNCHANGED <<windows, disk>>
      BY <2>1 DEF Update!FetchFails, Update!InstallFails, Working
    <3>2. new' \in [{"podiom", "podiomd"} -> Update!File]
      BY <2>0, <2>1 DEF Update!FetchFails, Update!InstallFails
    <3> QED
      BY <1>3, <3>1, <3>2, FailKeepsUpdateInv
  <2>2. ASSUME NEW a \in Update!Appliers, Update!Refused(a) PROVE FALSE
    <3>1. Installing(a) /\ applier[a].at = "rename" /\ applier[a].ver \in Releases
      BY <1>3, <2>2 DEF UpdateInv, Update!Refused, Appliances
    <3>2. new[Update!Bin(a)].ver \in Releases
      BY <3>1 DEF Installing, Update!Whole
    <3> QED
      BY <1>3, <2>2, <3>2, ReleasesAssumption DEF Update!Refused, Update!InUse
  <2>3. CASE Update!ExitAfterUpdate \/ Update!Die
    <3>1. /\ UNCHANGED <<windows, disk, new, updateLock>> /\ applier' = Update!Cut
          /\ mishaps' = mishaps \/ mishaps' = mishaps + 1
      BY <2>3 DEF Update!ExitAfterUpdate, Update!Die
    <3> QED
      BY <1>3, <3>1, CutKeepsUpdateInv
  <2>4. CASE Update!StartDaemon \/ UNCHANGED updaterVars
    BY <2>4 DEF Update!StartDaemon, updaterVars, UpdateInv, Installing, Working, Update!Bin
  <2> QED
    BY <1>3, <2>1, <2>2, <2>3, <2>4, LockKeepsUpdateInv, InstallKeepsUpdateInv DEF Update!UpdaterNext
<1> QED
  BY <1>2, <1>3

LEMMA UpdateInvMeans == UpdateInv => Update!InstalledIsOneRelease
BY DEF UpdateInv, Update!InstalledIsOneRelease

-----------------------------------------------------------------------------
(* The start of a daemon: it releases the run locks it finds before its    *)
(* loops can take one, and sweeps the attachments before it takes an       *)
(* upload.  Both are right of one daemon only.                             *)

OneDaemon == \A a, b \in Daemons : a = b

BootTypes ==
  /\ stage \in [Daemons -> Start!Stages]
  /\ runRow \in [Runs -> {"none", "running", "interrupted", "done"}]
  /\ worker \in [Runs -> Daemons \cup {Nobody}]

\* The goroutines of a process end with it, so the next one starts with none ...
WorksOnce ==
  \A d \in Daemons : stage[d] \in {"off", "opened"} => \A r \in Runs : worker[r] = Nobody
\* ... and holds no lock of theirs once it has released what it found.
NoStaleLock ==
  \A d \in Daemons : stage[d] \notin {"off", "opened"} =>
    \A r \in Runs : runRow[r] = "running" => worker[r] # Nobody
\* Files wait for their row only while the daemon that wrote them takes requests.
UploadHasSender ==
  upload = "files" =>
    /\ folder
    /\ sender \in Daemons /\ stage[sender] \notin {"off", "opened", "released"}

BootInv ==
  BootTypes /\ WorksOnce /\ NoStaleLock /\ UploadHasSender /\ Start!StoredHasFiles

LEMMA InitBootInv == Start!BootInit => BootInv
BY DEF Start!BootInit, BootInv, BootTypes, WorksOnce, NoStaleLock, UploadHasSender,
       Start!StoredHasFiles, Start!Stages

\* A process that ends takes its goroutines and its upload along.
LEMMA EndsKeepsBootInv ==
  ASSUME BootInv, OneDaemon, NEW d \in Daemons, Start!Ends(d), UNCHANGED <<runRow, folder>>
  PROVE  BootInv'
<1>1. /\ stage \in [Daemons -> Start!Stages] /\ worker \in [Runs -> Daemons \cup {Nobody}]
      /\ runRow \in [Runs -> {"none", "running", "interrupted", "done"}]
  BY DEF BootInv, BootTypes
<1>2. \A a \in Daemons : a = d
  BY DEF OneDaemon
<1>3. /\ stage' = [stage EXCEPT ![d] = "off"]
      /\ worker' = [r \in Runs |-> IF worker[r] = d THEN Nobody ELSE worker[r]]
  BY DEF Start!Ends, Start!To
<1>4. stage' \in [Daemons -> Start!Stages] /\ \A a \in Daemons : stage'[a] = "off"
  BY <1>1, <1>2, <1>3 DEF Start!Stages
<1>5. \A r \in Runs : worker'[r] = Nobody
  BY <1>1, <1>2, <1>3
<1>6. upload' = "files" => upload = "files" /\ sender # d
  BY DEF Start!Ends
<1>7. ~(upload' = "files")
  BY <1>2, <1>6 DEF BootInv, UploadHasSender
<1>8. Start!StoredHasFiles'
  BY DEF BootInv, Start!StoredHasFiles, Start!Ends
<1> QED
  BY <1>1, <1>3, <1>4, <1>5, <1>7, <1>8
  DEF BootInv, BootTypes, WorksOnce, NoStaleLock, UploadHasSender

\* A step that only moves the stage on, past the release of the locks.
LEMMA StageKeepsBootInv ==
  ASSUME BootInv, OneDaemon, NEW d \in Daemons, NEW s \in Start!Stages,
         stage' = [stage EXCEPT ![d] = s], UNCHANGED <<runRow, worker, upload, folder, sender>>,
         \/ stage[d] = "off" /\ s = "opened"
         \/ stage[d] \notin {"off", "opened", "released"} /\ s \notin {"off", "opened", "released"}
  PROVE  BootInv'
<1>1. /\ stage \in [Daemons -> Start!Stages] /\ worker \in [Runs -> Daemons \cup {Nobody}]
      /\ runRow \in [Runs -> {"none", "running", "interrupted", "done"}]
  BY DEF BootInv, BootTypes
<1>2. \A a \in Daemons : a = d
  BY DEF OneDaemon
<1>3. stage' \in [Daemons -> Start!Stages] /\ \A a \in Daemons : stage'[a] = s
  BY <1>1, <1>2
<1>4. BootTypes'
  BY <1>1, <1>3 DEF BootTypes
<1>5. WorksOnce' /\ NoStaleLock'
  BY <1>3 DEF BootInv, WorksOnce, NoStaleLock
<1>6. UploadHasSender'
  BY <1>2, <1>3 DEF BootInv, UploadHasSender
<1> QED
  BY <1>4, <1>5, <1>6 DEF BootInv, Start!StoredHasFiles

LEMMA ReleaseKeepsBootInv ==
  ASSUME BootInv, OneDaemon, NEW d \in Daemons, Start!Release(d) \/ Start!Sweep(d)
  PROVE  BootInv'
<1>1. /\ stage \in [Daemons -> Start!Stages] /\ worker \in [Runs -> Daemons \cup {Nobody}]
      /\ runRow \in [Runs -> {"none", "running", "interrupted", "done"}]
  BY DEF BootInv, BootTypes
<1>2. \A a \in Daemons : a = d
  BY DEF OneDaemon
<1>3. ~(upload = "files") \/ stage[d] \notin {"opened", "released"}
  BY <1>2 DEF BootInv, UploadHasSender
<1>4. CASE Start!Release(d)
  <2>1. /\ stage' = [stage EXCEPT ![d] = "released"] /\ stage[d] = "opened"
        /\ runRow' = [r \in Runs |-> Start!Released(r)]
        /\ UNCHANGED <<worker, upload, folder, sender>>
    BY <1>4 DEF Start!Release, Start!To
  <2>2. stage' \in [Daemons -> Start!Stages] /\ \A a \in Daemons : stage'[a] = "released"
    BY <1>1, <1>2, <2>1 DEF Start!Stages
  <2>3. \A r \in Runs : runRow'[r] \in {"none", "interrupted", "done"}
    BY <1>1, <2>1 DEF Start!Released
  <2>4. BootTypes' /\ WorksOnce' /\ NoStaleLock'
    BY <1>1, <2>1, <2>2, <2>3 DEF BootTypes, WorksOnce, NoStaleLock
  <2> QED
    BY <1>3, <2>1, <2>4 DEF BootInv, UploadHasSender, Start!StoredHasFiles
<1>5. CASE Start!Sweep(d)
  <2>1. /\ stage' = [stage EXCEPT ![d] = "swept"] /\ stage[d] = "released"
        /\ folder' = (folder /\ upload = "row") /\ UNCHANGED <<runRow, worker, upload, sender>>
    BY <1>5 DEF Start!Sweep, Start!To
  <2>2. stage' \in [Daemons -> Start!Stages] /\ \A a \in Daemons : stage'[a] = "swept"
    BY <1>1, <1>2, <2>1 DEF Start!Stages
  <2>3. BootTypes' /\ WorksOnce' /\ NoStaleLock'
    BY <1>1, <2>1, <2>2 DEF BootInv, BootTypes, WorksOnce, NoStaleLock
  <2>4. UploadHasSender'
    BY <1>3, <2>1 DEF UploadHasSender
  <2>5. Start!StoredHasFiles'
    BY <2>1 DEF BootInv, Start!StoredHasFiles
  <2> QED
    BY <2>3, <2>4, <2>5 DEF BootInv
<1> QED
  BY <1>4, <1>5

\* Runs and uploads, of a daemon that serves.
LEMMA ServingKeepsBootInv ==
  ASSUME BootInv, OneDaemon,
         \/ \E d \in Daemons : (\E r \in Runs : Start!StartRun(d, r)) \/ Start!Upload(d)
         \/ \E r \in Runs : Start!FinishRun(r)
         \/ Start!Insert
  PROVE  BootInv'
<1>1. /\ stage \in [Daemons -> Start!Stages] /\ worker \in [Runs -> Daemons \cup {Nobody}]
      /\ runRow \in [Runs -> {"none", "running", "interrupted", "done"}]
  BY DEF BootInv, BootTypes
<1>2. ASSUME NEW d \in Daemons, NEW r \in Runs, Start!StartRun(d, r) PROVE BootInv'
  <2>1. /\ stage[d] \in {"looping", "bound", "serving"}
        /\ runRow' = [runRow EXCEPT ![r] = "running"] /\ worker' = [worker EXCEPT ![r] = d]
        /\ UNCHANGED <<stage, upload, folder, sender>>
    BY <1>2 DEF Start!StartRun
  <2>2. \A a \in Daemons : a = d
    BY DEF OneDaemon
  <2>3. BootTypes' /\ WorksOnce'
    BY <1>1, <2>1, <2>2 DEF BootTypes, WorksOnce
  <2>4. NoStaleLock'
    <3>1. d # Nobody
      BY NobodyAssumption
    <3> QED
      BY <1>1, <2>1, <2>2, <3>1 DEF BootInv, NoStaleLock
  <2> QED
    BY <2>1, <2>3, <2>4 DEF BootInv, UploadHasSender, Start!StoredHasFiles
<1>3. ASSUME NEW d \in Daemons, Start!Upload(d) PROVE BootInv'
  BY <1>3 DEF Start!Upload, BootInv, BootTypes, WorksOnce, NoStaleLock, UploadHasSender,
       Start!StoredHasFiles
<1>4. ASSUME NEW r \in Runs, Start!FinishRun(r) PROVE BootInv'
  <2>1. /\ worker' = [worker EXCEPT ![r] = Nobody]
        /\ \E s \in {"none", "interrupted", "done"} : runRow' = [runRow EXCEPT ![r] = s]
        /\ UNCHANGED <<stage, upload, folder, sender>>
    BY <1>1, <1>4 DEF Start!FinishRun
  <2>2. BootTypes' /\ WorksOnce' /\ NoStaleLock'
    BY <1>1, <2>1 DEF BootInv, BootTypes, WorksOnce, NoStaleLock
  <2> QED
    BY <2>1, <2>2 DEF BootInv, UploadHasSender, Start!StoredHasFiles
<1>5. CASE Start!Insert
  BY <1>5 DEF Start!Insert, BootInv, BootTypes, WorksOnce, NoStaleLock, UploadHasSender,
       Start!StoredHasFiles
<1> QED
  BY <1>2, <1>3, <1>4, <1>5

LEMMA NextBootInv ==
  ASSUME BootInv, OneDaemon, [Start!BootNext]_bootVars
  PROVE  BootInv'
<1>1. stage \in [Daemons -> Start!Stages]
  BY DEF BootInv, BootTypes
<1>2. ASSUME NEW d \in Daemons, Start!Launch(d) \/ Start!StartLoops(d) \/ Start!Signal(d)
      PROVE  BootInv'
  <2>1. PICK s \in Start!Stages :
          /\ stage' = [stage EXCEPT ![d] = s]
          /\ \/ stage[d] = "off" /\ s = "opened"
             \/ stage[d] \notin {"off", "opened", "released"} /\ s \notin {"off", "opened", "released"}
    BY <1>2 DEF Start!Launch, Start!StartLoops, Start!Signal, Start!To, Start!Stages
  <2>2. UNCHANGED <<runRow, worker, upload, folder, sender>>
    BY <1>2 DEF Start!Launch, Start!StartLoops, Start!Signal
  <2> QED
    BY <2>1, <2>2, StageKeepsBootInv
<1>3. ASSUME NEW d \in Daemons, Start!Listen(d) \/ \E ok \in BOOLEAN : Start!ListenLan(d, ok)
      PROVE  BootInv'
  <2>1. CASE Start!Ends(d) /\ UNCHANGED <<runRow, folder>>
    BY <2>1, EndsKeepsBootInv
  <2>2. CASE ~Start!Ends(d)
    <3>1. PICK s \in {"bound", "serving"} : stage' = [stage EXCEPT ![d] = s]
      BY <1>3, <2>2 DEF Start!Listen, Start!ListenLan, Start!To
    <3>2. stage[d] \in {"looping", "bound"} /\ UNCHANGED <<runRow, worker, upload, folder, sender>>
      BY <1>3, <2>2 DEF Start!Listen, Start!ListenLan
    <3>3. s \in Start!Stages
      BY DEF Start!Stages
    <3> QED
      BY <3>1, <3>2, <3>3, StageKeepsBootInv
  <2>3. UNCHANGED <<runRow, folder>>
    BY <1>3 DEF Start!Listen, Start!ListenLan
  <2> QED
    BY <2>1, <2>2, <2>3
<1>4. ASSUME NEW d \in Daemons, Start!Exit(d) \/ Start!Die(d) PROVE BootInv'
  BY <1>4, EndsKeepsBootInv DEF Start!Exit, Start!Die
<1>5. CASE UNCHANGED bootVars
  BY <1>5 DEF bootVars, BootInv, BootTypes, WorksOnce, NoStaleLock, UploadHasSender,
       Start!StoredHasFiles
<1> QED
  BY <1>2, <1>3, <1>4, <1>5, ReleaseKeepsBootInv, ServingKeepsBootInv DEF Start!BootNext

LEMMA BootInvMeans == BootInv => Start!LocksAreLive /\ Start!StoredHasFiles
BY DEF BootInv, BootTypes, NoStaleLock, Start!LocksAreLive

-----------------------------------------------------------------------------
(* Deleting an agent: what is open when the sessions are listed stays in   *)
(* the list until it is in the archive, since what is begun afterwards is  *)
(* late.                                                                   *)

RequestFields == {"op", "at", "name", "chain", "tree", "listed"}
Deletes(h) == serving[h].at \in {"archive", "purge"}

\* The sessions a deletion has listed, and then those it has archived, are all that
\* were open when it began.
ArchiveCovers ==
  \A h \in Handlers :
    /\ Deletes(h) => serving[h].op = "delete"
    /\ \A s \in Sessions : chat[s] = "open" =>
         /\ serving[h].at = "archive" => s \in serving[h].listed
         /\ serving[h].at = "purge" => s \in archive

RequestTypes ==
  /\ DOMAIN serving = Handlers /\ \A h \in Handlers : DOMAIN serving[h] = RequestFields
  /\ DOMAIN chat = Sessions

SettingsInv == RequestTypes /\ ArchiveCovers /\ Config!ArchivedBeforeDeleted

LEMMA IdleRequest ==
  /\ DOMAIN Config!Idle = RequestFields
  /\ Config!Idle.at = "idle" /\ Config!Idle.op = "save"
BY DEF Config!Idle, RequestFields

LEMMA InitSettingsInv == Config!SettingsInit => SettingsInv
BY IdleRequest DEF Config!SettingsInit, SettingsInv, RequestTypes, ArchiveCovers, Deletes,
  Config!ArchivedBeforeDeleted

\* A request that deletes nothing, or has deleted.
LEMMA OtherRequest ==
  ASSUME SettingsInv, NEW h \in Handlers, NEW request, DOMAIN request = RequestFields,
         request.at \notin {"archive", "purge"},
         serving' = [serving EXCEPT ![h] = request], UNCHANGED <<chat, archive>>
  PROVE  SettingsInv'
<1>1. RequestTypes'
  BY DEF SettingsInv, RequestTypes
<1>2. ArchiveCovers'
  BY DEF SettingsInv, RequestTypes, ArchiveCovers, Deletes
<1> QED
  BY <1>1, <1>2 DEF SettingsInv, Config!ArchivedBeforeDeleted

\* The steps of an edit, of an agent that is written, and the end of a deletion.
LEMMA EditKeepsSettingsInv ==
  ASSUME SettingsInv, NEW h \in Handlers,
         \/ \E p \in Profiles : Config!SaveProfile(h, p) \/ Config!DeleteProfile(h, p)
         \/ \E d, c \in Config!Names : Config!PatchConfig(h, d, c)
         \/ Config!ReadTree(h) \/ Config!WriteTree(h)
         \/ \E kind \in {"create", "put"}, n \in Config!Names : Config!CheckAgent(h, kind, n)
         \/ Config!StoreAgent(h) \/ Config!Drop(h)
  PROVE  SettingsInv'
<1>1. UNCHANGED <<chat, archive>>
  BY DEF Config!SaveProfile, Config!DeleteProfile, Config!PatchConfig, Config!ReadTree,
         Config!WriteTree, Config!CheckAgent, Config!StoreAgent, Config!Drop
<1>2. DOMAIN serving[h] = RequestFields
  BY DEF SettingsInv, RequestTypes
<1> DEFINE Harmless ==
      \E request :
        /\ DOMAIN request = RequestFields /\ request.at \notin {"archive", "purge"}
        /\ serving' = [serving EXCEPT ![h] = request]
<1>3. Harmless
  <2>1. ASSUME NEW p \in Profiles, Config!SaveProfile(h, p) \/ Config!DeleteProfile(h, p)
        PROVE  Harmless
    <3>1. CASE Config!SaveProfile(h, p)
      <4> DEFINE request == [Config!Idle EXCEPT !.at = "read", !.name = p]
      <4>1. DOMAIN request = RequestFields /\ request.at = "read"
        BY IdleRequest DEF RequestFields
      <4> QED
        BY <3>1, <4>1 DEF Config!SaveProfile, Config!Take
    <3>2. CASE Config!DeleteProfile(h, p)
      <4> DEFINE request == [Config!Idle EXCEPT !.op = "remove", !.at = "read", !.name = p]
      <4>1. DOMAIN request = RequestFields /\ request.at = "read"
        BY IdleRequest DEF RequestFields
      <4> QED
        BY <3>2, <4>1 DEF Config!DeleteProfile, Config!Take
    <3> QED
      BY <2>1, <3>1, <3>2
  <2>2. ASSUME NEW d \in Config!Names, NEW c \in Config!Names, Config!PatchConfig(h, d, c)
        PROVE  Harmless
    <3> DEFINE request == [Config!Idle EXCEPT !.op = "patch", !.at = "read", !.name = d, !.chain = c]
    <3>1. DOMAIN request = RequestFields /\ request.at = "read"
      BY IdleRequest DEF RequestFields
    <3> QED
      BY <2>2, <3>1 DEF Config!PatchConfig, Config!Take
  <2>3. CASE Config!ReadTree(h)
    <3> DEFINE request == [serving[h] EXCEPT !.tree = file, !.at = "write"]
    <3>1. DOMAIN request = RequestFields /\ request.at = "write"
      BY <1>2 DEF RequestFields
    <3>2. serving' = [serving EXCEPT ![h] = request]
      BY <2>3 DEF Config!ReadTree
    <3> QED
      BY <3>1, <3>2
  <2>4. CASE Config!WriteTree(h) \/ Config!StoreAgent(h)
    BY <2>4, IdleRequest DEF Config!WriteTree, Config!StoreAgent, Config!Replied
  <2>5. ASSUME NEW kind \in {"create", "put"}, NEW n \in Config!Names, Config!CheckAgent(h, kind, n)
        PROVE  Harmless
    <3> DEFINE request ==
          [Config!Idle EXCEPT !.op = kind, !.at = "store", !.name = Config!Effective(n)]
    <3>1. DOMAIN request = RequestFields /\ request.at = "store"
      BY IdleRequest DEF RequestFields
    <3> QED
      BY <2>5, <3>1 DEF Config!CheckAgent, Config!Take
  <2>6. CASE Config!Drop(h)
    <3>1. CASE Config!Replied(h)
      BY <3>1, IdleRequest DEF Config!Replied
    <3>2. CASE ~Config!Replied(h)
      <4> DEFINE request == [serving[h] EXCEPT !.op = "forget", !.at = "read"]
      <4>1. DOMAIN request = RequestFields /\ request.at = "read"
        BY <1>2 DEF RequestFields
      <4>2. serving' = [serving EXCEPT ![h] = request]
        BY <2>6, <3>2 DEF Config!Drop
      <4> QED
        BY <4>1, <4>2
    <3> QED
      BY <3>1, <3>2
  <2> QED
    BY <2>1, <2>2, <2>3, <2>4, <2>5, <2>6
<1> QED
  BY <1>1, <1>3, OtherRequest

\* The list, the archive and the purge of a deletion.
LEMMA DeleteKeepsSettingsInv ==
  ASSUME SettingsInv, NEW h \in Handlers,
         \/ Config!ListAgentSessions(h) \/ Config!Purge(h)
         \/ \E ok \in BOOLEAN : Config!Archive(h, ok)
  PROVE  SettingsInv'
<1>0. /\ DOMAIN serving = Handlers /\ \A g \in Handlers : DOMAIN serving[g] = RequestFields
      /\ DOMAIN chat = Sessions
  BY DEF SettingsInv, RequestTypes
<1>1. CASE Config!ListAgentSessions(h)
  <2> DEFINE sessions == {s \in Sessions : chat[s] \in {"open", "late"}}
             request == [Config!Idle EXCEPT !.op = "delete", !.at = "archive", !.listed = sessions]
  <2>1. /\ DOMAIN request = RequestFields
        /\ request.at = "archive" /\ request.op = "delete" /\ request.listed = sessions
    BY IdleRequest DEF RequestFields
  <2>2. serving' = [serving EXCEPT ![h] = request] /\ UNCHANGED <<chat, archive>>
    BY <1>1 DEF Config!ListAgentSessions, Config!Take
  <2>3. \A s \in Sessions : chat[s] = "open" => s \in sessions
    OBVIOUS
  <2> HIDE DEF sessions, request
  <2>4. RequestTypes'
    BY <1>0, <2>1, <2>2 DEF RequestTypes
  <2>5. ArchiveCovers'
    BY <1>0, <2>1, <2>2, <2>3 DEF SettingsInv, ArchiveCovers, Deletes
  <2> QED
    BY <2>2, <2>4, <2>5 DEF SettingsInv, Config!ArchivedBeforeDeleted
<1>2. ASSUME NEW ok \in BOOLEAN, Config!Archive(h, ok) PROVE SettingsInv'
  <2> DEFINE request == [serving[h] EXCEPT !.at = Config!AfterArchive(ok)]
  <2>1. /\ DOMAIN request = RequestFields /\ request.at = IF ok THEN "purge" ELSE "idle"
        /\ request.op = serving[h].op /\ request.listed = serving[h].listed
    BY <1>0 DEF RequestFields, Config!AfterArchive
  <2>2. /\ serving[h].at = "archive" /\ serving' = [serving EXCEPT ![h] = request]
        /\ archive' = IF ok THEN archive \cup serving[h].listed ELSE archive
        /\ UNCHANGED chat
    BY <1>2 DEF Config!Archive, Config!Go
  <2> HIDE DEF request
  <2>3. RequestTypes'
    BY <1>0, <2>1, <2>2 DEF RequestTypes
  <2>4. ArchiveCovers'
    BY <1>0, <2>1, <2>2 DEF SettingsInv, ArchiveCovers, Deletes
  <2> QED
    BY <2>2, <2>3, <2>4 DEF SettingsInv, Config!ArchivedBeforeDeleted
<1>3. CASE Config!Purge(h)
  <2> DEFINE request == [serving[h] EXCEPT !.at = "drop"]
  <2>1. DOMAIN request = RequestFields /\ request.at = "drop"
    BY <1>0 DEF RequestFields
  <2>2. /\ serving[h].at = "purge" /\ serving' = [serving EXCEPT ![h] = request]
        /\ UNCHANGED archive
    BY <1>3 DEF Config!Purge, Config!Go
  <2> HIDE DEF request
  <2>3. /\ DOMAIN chat' = Sessions
        /\ \A s \in Sessions : /\ chat'[s] # "open"
                               /\ chat'[s] = "deleted" => chat[s] \in {"open", "deleted"}
    BY <1>3 DEF Config!Purge
  <2>4. RequestTypes'
    BY <1>0, <2>1, <2>2, <2>3 DEF RequestTypes
  <2>5. ArchiveCovers'
    BY <1>0, <2>1, <2>2, <2>3 DEF SettingsInv, ArchiveCovers, Deletes
  <2>6. Config!ArchivedBeforeDeleted'
    BY <2>2, <2>3 DEF SettingsInv, ArchiveCovers, Config!ArchivedBeforeDeleted
  <2> QED
    BY <2>4, <2>5, <2>6 DEF SettingsInv
<1> QED
  BY <1>1, <1>2, <1>3

LEMMA NextSettingsInv ==
  ASSUME SettingsInv, [Config!SettingsNext]_settingsVars
  PROVE  SettingsInv'
<1>1. ASSUME NEW s \in Sessions, Config!OpenSession(s) PROVE SettingsInv'
  <2>1. PICK fresh \in {"open", "late"} :
          /\ chat' = [chat EXCEPT ![s] = fresh] /\ UNCHANGED <<serving, archive>>
          /\ fresh = "open" => \A h \in Handlers : ~(serving[h].op = "delete" /\ serving[h].at # "idle")
    BY <1>1 DEF Config!OpenSession
  <2>2. RequestTypes'
    BY <2>1 DEF SettingsInv, RequestTypes
  <2>3. ArchiveCovers'
    BY <2>1 DEF SettingsInv, RequestTypes, ArchiveCovers, Deletes
  <2>4. Config!ArchivedBeforeDeleted'
    BY <2>1 DEF SettingsInv, RequestTypes, Config!ArchivedBeforeDeleted
  <2> QED
    BY <2>2, <2>3, <2>4 DEF SettingsInv
<1>2. CASE Config!Stop
  <2>1. serving' = [h \in Handlers |-> Config!Idle] /\ UNCHANGED <<chat, archive>>
    BY <1>2 DEF Config!Stop
  <2> QED
    BY <2>1, IdleRequest DEF SettingsInv, RequestTypes, ArchiveCovers, Deletes,
       Config!ArchivedBeforeDeleted
<1>3. CASE Config!Start \/ UNCHANGED settingsVars
  <2>1. UNCHANGED <<serving, chat, archive>>
    BY <1>3 DEF Config!Start, settingsVars
  <2> QED
    BY <2>1 DEF SettingsInv, RequestTypes, ArchiveCovers, Deletes, Config!ArchivedBeforeDeleted
<1> QED
  BY <1>1, <1>2, <1>3, EditKeepsSettingsInv, DeleteKeepsSettingsInv DEF Config!SettingsNext

-----------------------------------------------------------------------------
(* A conversation: the write lock is held from before a sequence number is *)
(* read until it is used, so that no other append comes between; and what  *)
(* attachmentMu's holder is at names the one photo that has files without  *)
(* a row.                                                                  *)

Appends == [at : {"idle", "begun", "read"}, next : Nat, photos : SUBSET Photos, refused : BOOLEAN]
Jobs == [op : {"free", "upload", "remove", "drop", "clean"}, photo : Photos \cup {None},
         listed : SUBSET Photos]
PhotoTypes ==
  /\ photo \in [Photos -> {"none", "draft", "stale", "bound"}] /\ files \subseteq Photos
  /\ job \in Jobs /\ alive \in BOOLEAN
AppendTypes ==
  /\ append \in [Writers -> Appends] /\ last \in Nat
  /\ dbLock \in Writers \cup {None}

\* Who is in a transaction holds the lock, and its number is the next one.
LockHeld ==
  \A w \in Writers :
    /\ append[w].at # "idle" <=> dbLock = w
    /\ append[w].at = "read" => append[w].next = last + 1

\* The photo whose files are written before its row, or outlive it.
Underway == IF job.op \in {"upload", "remove"} THEN {job.photo} ELSE {}
UnderwayHasNoRow == \A p \in Underway : p \in Photos /\ photo[p] = "none"
FilesOrUnderway == alive => files \subseteq Store!Rows \cup Underway
RowsOfSession == ~alive => Store!Rows = {}

AppendInv == AppendTypes /\ LockHeld /\ Store!NoAppendRefused
PhotoInv ==
  PhotoTypes /\ UnderwayHasNoRow /\ FilesOrUnderway /\ RowsOfSession /\ Store!PhotoHasFiles

LEMMA InitStoreInv == Store!StoreInit => AppendInv /\ PhotoInv
<1> SUFFICES ASSUME Store!StoreInit PROVE AppendInv /\ PhotoInv
  OBVIOUS
<1>1. Store!NoAppend \in Appends /\ Store!NoAppend.at = "idle" /\ ~Store!NoAppend.refused
  BY DEF Store!NoAppend, Appends
<1>2. Store!NoJob \in Jobs /\ Store!NoJob.op = "free"
  BY DEF Store!NoJob, Jobs
<1>3. AppendInv
  BY <1>1, NoneAssumption
  DEF Store!StoreInit, AppendInv, AppendTypes, LockHeld, Store!NoAppendRefused
<1>4. PhotoInv
  BY <1>2 DEF Store!StoreInit, PhotoInv, PhotoTypes, UnderwayHasNoRow, FilesOrUnderway,
     RowsOfSession, Store!PhotoHasFiles, Store!Rows, Underway
<1> QED
  BY <1>3, <1>4

-----------------------------------------------------------------------------
LEMMA ReadAppend ==
  ASSUME NEW a \in Appends, NEW n \in Nat
  PROVE  LET fresh == [a EXCEPT !.at = "read", !.next = n + 1]
         IN  fresh \in Appends /\ fresh.at = "read" /\ fresh.refused = a.refused /\ fresh.next = n + 1
<1>1. n + 1 \in Nat
  OBVIOUS
<1> QED
  BY <1>1 DEF Appends

\* The transactions of one writer.
LEMMA WriterKeepsAppendInv ==
  ASSUME AppendInv, NEW w \in Writers,
         \/ \E ps \in SUBSET Photos : Store!Begin(w, ps)
         \/ Store!ReadNext(w) \/ Store!Commit(w)
  PROVE  AppendInv'
<1>1. /\ append \in [Writers -> Appends] /\ last \in Nat /\ dbLock \in Writers \cup {None}
      /\ None \notin Writers
  BY NoneAssumption DEF AppendInv, AppendTypes
<1>2. append[w] \in Appends /\ Store!NoAppend \in Appends
  BY <1>1 DEF Appends, Store!NoAppend
<1>3. ASSUME NEW ps \in SUBSET Photos, Store!Begin(w, ps) PROVE AppendInv'
  <2> DEFINE fresh == [Store!NoAppend EXCEPT !.at = "begun", !.photos = ps]
  <2>1. fresh \in Appends /\ fresh.at = "begun" /\ ~fresh.refused
    BY DEF Appends, Store!NoAppend
  <2>2. /\ append' = [append EXCEPT ![w] = fresh] /\ UNCHANGED last
        /\ dbLock = None /\ dbLock' = w
    BY <1>3 DEF Store!Begin, Store!Locked, Store!Writable
  <2> HIDE DEF fresh
  <2>3. AppendTypes'
    BY <1>1, <2>1, <2>2 DEF AppendTypes
  <2>4. LockHeld'
    BY <1>1, <2>1, <2>2 DEF AppendInv, LockHeld
  <2> QED
    BY <1>1, <2>1, <2>2, <2>3, <2>4 DEF AppendInv, Store!NoAppendRefused
<1>4. CASE Store!ReadNext(w)
  <2> DEFINE fresh == [append[w] EXCEPT !.at = "read", !.next = last + 1]
  <2>1. /\ fresh \in Appends /\ fresh.at = "read" /\ fresh.refused = append[w].refused
        /\ fresh.next = last + 1
    BY <1>1, <1>2, ReadAppend
  <2>2. /\ append[w].at = "begun" /\ append' = [append EXCEPT ![w] = fresh]
        /\ UNCHANGED <<last, dbLock>>
    BY <1>4 DEF Store!ReadNext
  <2> HIDE DEF fresh
  <2>3. AppendTypes'
    BY <1>1, <2>1, <2>2 DEF AppendTypes
  <2>4. LockHeld'
    BY <1>1, <2>1, <2>2 DEF AppendInv, LockHeld
  <2> QED
    BY <1>1, <2>1, <2>2, <2>3, <2>4 DEF AppendInv, Store!NoAppendRefused
<1>5. CASE Store!Commit(w)
  <2> DEFINE fresh == [Store!NoAppend EXCEPT !.refused = append[w].next # last + 1]
  <2>1. append[w].at = "read" /\ append[w].next = last + 1 /\ dbLock = w
    BY <1>5 DEF Store!Commit, AppendInv, LockHeld
  <2>2. fresh \in Appends /\ fresh.at = "idle" /\ ~fresh.refused
    BY <2>1 DEF Appends, Store!NoAppend
  <2>3. /\ append' = [append EXCEPT ![w] = fresh] /\ dbLock' = None
        /\ last' = last \/ last' = append[w].next
    BY <1>5 DEF Store!Commit
  <2> HIDE DEF fresh
  <2>4. AppendTypes'
    BY <1>1, <2>1, <2>2, <2>3 DEF AppendTypes
  <2>5. LockHeld'
    BY <1>1, <2>1, <2>2, <2>3 DEF AppendInv, LockHeld
  <2> QED
    BY <1>1, <2>2, <2>3, <2>4, <2>5 DEF AppendInv, Store!NoAppendRefused
<1> QED
  BY <1>3, <1>4, <1>5

LEMMA NextAppendInv ==
  ASSUME AppendInv, [Store!StoreNext]_sessionsVars
  PROVE  AppendInv'
<1>1. /\ append \in [Writers -> Appends] /\ last \in Nat /\ dbLock \in Writers \cup {None}
      /\ None \notin Writers
  BY NoneAssumption DEF AppendInv, AppendTypes
<1>2. CASE Store!DropSession
  <2>1. UNCHANGED <<append, dbLock>> /\ last' = 0 /\ dbLock = None
    BY <1>2 DEF Store!DropSession, Store!Writable
  <2> QED
    BY <1>1, <2>1 DEF AppendInv, AppendTypes, LockHeld, Store!NoAppendRefused
<1>3. CASE Store!Restart
  <2>1. append' = [w \in Writers |-> Store!NoAppend] /\ dbLock' = None /\ UNCHANGED last
    BY <1>3 DEF Store!Restart
  <2>2. Store!NoAppend \in Appends /\ Store!NoAppend.at = "idle" /\ ~Store!NoAppend.refused
    BY DEF Appends, Store!NoAppend
  <2> QED
    BY <1>1, <2>1, <2>2 DEF AppendInv, AppendTypes, LockHeld, Store!NoAppendRefused
<1>4. CASE UNCHANGED <<append, last, dbLock>>
  BY <1>4 DEF AppendInv, AppendTypes, LockHeld, Store!NoAppendRefused
<1>5. ASSUME NEW p \in Photos,
             Store!Upload(p) \/ Store!RemoveDraft(p) \/ Store!Expire(p) \/ Store!CleanupDraft(p)
      PROVE  UNCHANGED <<append, last, dbLock>>
  BY <1>5 DEF Store!Upload, Store!RemoveDraft, Store!Expire, Store!CleanupDraft
<1>6. ASSUME \/ Store!WriteFiles \/ Store!RemoveFiles \/ Store!CleanupList \/ Store!CleanupDirs
             \/ Store!DropDirectory
      PROVE  UNCHANGED <<append, last, dbLock>>
  BY <1>6 DEF Store!WriteFiles, Store!RemoveFiles, Store!CleanupList, Store!CleanupDirs,
     Store!DropDirectory
<1>7. ASSUME NEW ok \in BOOLEAN, Store!InsertRow(ok) \/ Store!SetArchived(ok) \/ Store!SetGate(ok)
      PROVE  UNCHANGED <<append, last, dbLock>>
  BY <1>7 DEF Store!InsertRow, Store!SetArchived, Store!SetGate
<1>8. ASSUME \/ Store!SweepList \/ Store!SweepCheck \/ Store!SweepStamp \/ Store!TurnRegisters
             \/ Store!TurnRuns \/ Store!TurnEnds \/ Store!DaysPass \/ UNCHANGED sessionsVars
      PROVE  UNCHANGED <<append, last, dbLock>>
  BY <1>8 DEF Store!SweepList, Store!SweepCheck, Store!SweepStamp, Store!TurnRegisters,
     Store!TurnRuns, Store!TurnEnds, Store!DaysPass, sessionsVars
<1> QED
  BY <1>2, <1>3, <1>4, <1>5, <1>6, <1>7, <1>8, WriterKeepsAppendInv DEF Store!StoreNext

-----------------------------------------------------------------------------
\* A step of a photo's own, told by what it leaves: the rows, the files, what is under way.
LEMMA PhotoStep ==
  ASSUME PhotoInv, PhotoTypes', UnderwayHasNoRow', UNCHANGED alive,
         alive => files' \subseteq Store!Rows' \cup Underway',
         Store!Rows' \subseteq files', ~alive => Store!Rows' = {}
  PROVE  PhotoInv'
BY DEF PhotoInv, FilesOrUnderway, RowsOfSession, Store!PhotoHasFiles

LEMMA NoJobIs ==
  /\ Store!NoJob \in Jobs /\ Store!NoJob.op = "free"
  /\ \A p \in Photos :
       /\ [Store!NoJob EXCEPT !.op = "upload", !.photo = p] \in Jobs
       /\ [Store!NoJob EXCEPT !.op = "upload", !.photo = p].op = "upload"
       /\ [Store!NoJob EXCEPT !.op = "upload", !.photo = p].photo = p
       /\ [Store!NoJob EXCEPT !.op = "remove", !.photo = p] \in Jobs
       /\ [Store!NoJob EXCEPT !.op = "remove", !.photo = p].op = "remove"
       /\ [Store!NoJob EXCEPT !.op = "remove", !.photo = p].photo = p
  /\ \A S \in SUBSET Photos :
       /\ [Store!NoJob EXCEPT !.op = "drop", !.listed = S] \in Jobs
       /\ [Store!NoJob EXCEPT !.op = "drop", !.listed = S].op = "drop"
BY DEF Store!NoJob, Jobs

\* An upload: the lookup, the files, the row.
LEMMA UploadKeepsPhotoInv ==
  ASSUME PhotoInv,
         \/ \E p \in Photos : Store!Upload(p)
         \/ Store!WriteFiles \/ \E ok \in BOOLEAN : Store!InsertRow(ok)
  PROVE  PhotoInv'
<1>1. /\ photo \in [Photos -> {"none", "draft", "stale", "bound"}] /\ files \subseteq Photos
      /\ job \in Jobs /\ alive \in BOOLEAN
  BY DEF PhotoInv, PhotoTypes
<1>2. /\ alive => files \subseteq Store!Rows \cup Underway
      /\ Store!Rows \subseteq files /\ (~alive => Store!Rows = {})
  BY DEF PhotoInv, FilesOrUnderway, RowsOfSession, Store!PhotoHasFiles
<1>3. ASSUME NEW p \in Photos, Store!Upload(p) PROVE PhotoInv'
  <2>1. /\ job.op = "free" /\ photo[p] = "none" /\ UNCHANGED <<alive, photo, files>>
        /\ job' = [Store!NoJob EXCEPT !.op = "upload", !.photo = p]
    BY <1>3 DEF Store!Upload
  <2>2. job' \in Jobs /\ Underway = {} /\ Underway' = {p}
    BY <2>1, NoJobIs DEF Underway
  <2>3. PhotoTypes' /\ UnderwayHasNoRow'
    BY <1>1, <2>1, <2>2 DEF PhotoTypes, UnderwayHasNoRow
  <2>4. Store!Rows' = Store!Rows
    BY <2>1 DEF Store!Rows
  <2> QED
    BY <1>2, <2>1, <2>2, <2>3, <2>4, PhotoStep
<1>4. CASE Store!WriteFiles
  <2>1. /\ job.op = "upload" /\ files' = files \cup {job.photo} /\ UNCHANGED <<alive, photo, job>>
    BY <1>4 DEF Store!WriteFiles
  <2>2. Underway = {job.photo} /\ Underway' = Underway
    BY <2>1 DEF Underway
  <2>3. job.photo \in Photos /\ photo[job.photo] = "none"
    BY <2>2 DEF PhotoInv, UnderwayHasNoRow
  <2>4. PhotoTypes' /\ UnderwayHasNoRow'
    BY <1>1, <2>1, <2>2, <2>3 DEF PhotoTypes, UnderwayHasNoRow
  <2>5. Store!Rows' = Store!Rows
    BY <2>1 DEF Store!Rows
  <2> QED
    BY <1>2, <2>1, <2>2, <2>4, <2>5, PhotoStep
<1>5. ASSUME NEW ok \in BOOLEAN, Store!InsertRow(ok) PROVE PhotoInv'
  <2>1. job.op = "upload" /\ job' = Store!NoJob /\ UNCHANGED alive
    BY <1>5 DEF Store!InsertRow
  <2>2. Underway = {job.photo} /\ Underway' = {} /\ job' \in Jobs
    BY <2>1, NoJobIs DEF Underway
  <2>3. job.photo \in Photos /\ photo[job.photo] = "none" /\ job.photo \notin Store!Rows
    BY <2>2 DEF PhotoInv, UnderwayHasNoRow, Store!Rows
  <2>4. CASE ok /\ alive
    <3>1. /\ photo' = [photo EXCEPT ![job.photo] = "draft"] /\ UNCHANGED files
          /\ job.photo \in files
      BY <1>5, <2>4 DEF Store!InsertRow
    <3>2. Store!Rows' = Store!Rows \cup {job.photo}
      BY <1>1, <2>3, <3>1 DEF Store!Rows
    <3>3. PhotoTypes' /\ UnderwayHasNoRow'
      BY <1>1, <2>1, <2>2, <3>1 DEF PhotoTypes, UnderwayHasNoRow
    <3> QED
      BY <1>2, <2>1, <2>2, <2>4, <3>1, <3>2, <3>3, PhotoStep
  <2>5. CASE ~(ok /\ alive)
    <3>1. files' = files \ {job.photo} /\ UNCHANGED photo
      BY <1>5, <2>5 DEF Store!InsertRow, Store!Undone
    <3>2. Store!Rows' = Store!Rows
      BY <3>1 DEF Store!Rows
    <3>3. PhotoTypes' /\ UnderwayHasNoRow'
      BY <1>1, <2>1, <2>2, <3>1 DEF PhotoTypes, UnderwayHasNoRow
    <3> QED
      BY <1>2, <2>1, <2>2, <2>3, <3>1, <3>2, <3>3, PhotoStep
  <2> QED
    BY <2>4, <2>5
<1> QED
  BY <1>3, <1>4, <1>5

\* A draft that is removed, or expires.
LEMMA RemovalKeepsPhotoInv ==
  ASSUME PhotoInv,
         \/ \E p \in Photos : Store!RemoveDraft(p) \/ Store!Expire(p)
         \/ Store!RemoveFiles
  PROVE  PhotoInv'
<1>1. /\ photo \in [Photos -> {"none", "draft", "stale", "bound"}] /\ files \subseteq Photos
      /\ job \in Jobs /\ alive \in BOOLEAN
  BY DEF PhotoInv, PhotoTypes
<1>2. /\ alive => files \subseteq Store!Rows \cup Underway
      /\ Store!Rows \subseteq files /\ (~alive => Store!Rows = {})
  BY DEF PhotoInv, FilesOrUnderway, RowsOfSession, Store!PhotoHasFiles
<1>3. ASSUME NEW p \in Photos, Store!RemoveDraft(p) PROVE PhotoInv'
  <2>1. /\ job.op = "free" /\ photo' = [photo EXCEPT ![p] = "none"] /\ UNCHANGED <<alive, files>>
        /\ job' = [Store!NoJob EXCEPT !.op = "remove", !.photo = p]
    BY <1>3 DEF Store!RemoveDraft
  <2>2. job' \in Jobs /\ Underway = {} /\ Underway' = {p}
    BY <2>1, NoJobIs DEF Underway
  <2>3. PhotoTypes' /\ UnderwayHasNoRow'
    BY <1>1, <2>1, <2>2 DEF PhotoTypes, UnderwayHasNoRow
  <2>4. Store!Rows' = Store!Rows \ {p}
    BY <1>1, <2>1 DEF Store!Rows
  <2> QED
    BY <1>2, <2>1, <2>2, <2>3, <2>4, PhotoStep
<1>4. ASSUME NEW p \in Photos, Store!Expire(p) PROVE PhotoInv'
  <2>1. /\ photo[p] = "draft" /\ photo' = [photo EXCEPT ![p] = "stale"]
        /\ UNCHANGED <<alive, files, job>>
    BY <1>4 DEF Store!Expire
  <2>2. Underway' = Underway /\ p \notin Underway
    BY <2>1 DEF PhotoInv, UnderwayHasNoRow, Underway
  <2>3. PhotoTypes' /\ UnderwayHasNoRow'
    BY <1>1, <2>1, <2>2 DEF PhotoInv, PhotoTypes, UnderwayHasNoRow
  <2>4. Store!Rows' = Store!Rows
    BY <1>1, <2>1 DEF Store!Rows
  <2> QED
    BY <1>2, <2>1, <2>2, <2>3, <2>4, PhotoStep
<1>5. CASE Store!RemoveFiles
  <2>1. /\ job.op = "remove" /\ files' = files \ {job.photo} /\ job' = Store!NoJob
        /\ UNCHANGED <<alive, photo>>
    BY <1>5 DEF Store!RemoveFiles
  <2>2. Underway = {job.photo} /\ Underway' = {} /\ job' \in Jobs
    BY <2>1, NoJobIs DEF Underway
  <2>3. job.photo \notin Store!Rows
    BY <2>2 DEF PhotoInv, UnderwayHasNoRow, Store!Rows
  <2>4. PhotoTypes' /\ UnderwayHasNoRow'
    BY <1>1, <2>1, <2>2 DEF PhotoTypes, UnderwayHasNoRow
  <2>5. Store!Rows' = Store!Rows
    BY <2>1 DEF Store!Rows
  <2> QED
    BY <1>2, <2>1, <2>2, <2>3, <2>4, <2>5, PhotoStep
<1> QED
  BY <1>3, <1>4, <1>5

\* The sweep of the drafts that are stale and of the directories without a row.
LEMMA CleanupKeepsPhotoInv ==
  ASSUME PhotoInv,
         \/ \E p \in Photos : Store!CleanupDraft(p)
         \/ Store!CleanupList \/ Store!CleanupDirs
  PROVE  PhotoInv'
<1>1. /\ photo \in [Photos -> {"none", "draft", "stale", "bound"}] /\ files \subseteq Photos
      /\ job \in Jobs /\ alive \in BOOLEAN
  BY DEF PhotoInv, PhotoTypes
<1>2. /\ alive => files \subseteq Store!Rows \cup Underway
      /\ Store!Rows \subseteq files /\ (~alive => Store!Rows = {})
  BY DEF PhotoInv, FilesOrUnderway, RowsOfSession, Store!PhotoHasFiles
<1>3. Underway = {} /\ UNCHANGED alive /\ job.op \in {"free", "drop"}
  BY DEF Store!CleanupDraft, Store!CleanupList, Store!CleanupDirs, Underway
<1>4. ASSUME NEW p \in Photos, Store!CleanupDraft(p) PROVE PhotoInv'
  <2>1. CASE p \in Store!Drafts
    <3> DEFINE fresh == [job EXCEPT !.listed = @ \ {p}]
    <3>1. fresh \in Jobs /\ fresh.op = job.op
      BY <1>1 DEF Jobs
    <3>2. job' = fresh /\ files' = files \ {p}
      BY <1>4, <2>1 DEF Store!CleanupDraft, Store!CleanupDrops
    <3>3. photo' = [photo EXCEPT ![p] = "none"]
      BY <1>4, <2>1 DEF Store!CleanupDraft, Store!CleanupDrops
    <3>4. Underway' = {} /\ job' \in Jobs
      BY <1>3, <3>1, <3>2 DEF Underway
    <3>5. PhotoTypes' /\ UnderwayHasNoRow'
      BY <1>1, <1>3, <3>2, <3>3, <3>4 DEF PhotoTypes, UnderwayHasNoRow
    <3>6. Store!Rows' = Store!Rows \ {p}
      BY <1>1, <3>3 DEF Store!Rows
    <3> QED
      BY <1>2, <1>3, <3>2, <3>4, <3>5, <3>6, PhotoStep
  <2>2. CASE p \notin Store!Drafts
    <3>1. job' = Store!NoJob /\ UNCHANGED <<photo, files>>
      BY <1>4, <2>2 DEF Store!CleanupDraft, Store!CleanupDrops
    <3>2. Underway' = {} /\ job' \in Jobs
      BY <3>1, NoJobIs DEF Underway
    <3>3. PhotoTypes' /\ UnderwayHasNoRow' /\ Store!Rows' = Store!Rows
      BY <1>1, <1>3, <3>1, <3>2 DEF PhotoTypes, UnderwayHasNoRow, Store!Rows
    <3> QED
      BY <1>2, <1>3, <3>1, <3>2, <3>3, PhotoStep
  <2> QED
    BY <2>1, <2>2
<1>5. CASE Store!CleanupList
  <2> DEFINE stale == {p \in Photos : photo[p] = "stale"}
  <2>1. /\ job' = [Store!NoJob EXCEPT !.op = "drop", !.listed = stale] /\ stale \in SUBSET Photos
        /\ UNCHANGED <<photo, files>>
    BY <1>5 DEF Store!CleanupList
  <2>2. Underway' = {} /\ job' \in Jobs
    BY <2>1, NoJobIs DEF Underway
  <2>3. PhotoTypes' /\ UnderwayHasNoRow' /\ Store!Rows' = Store!Rows
    BY <1>1, <1>3, <2>1, <2>2 DEF PhotoTypes, UnderwayHasNoRow, Store!Rows
  <2> QED
    BY <1>2, <1>3, <2>1, <2>2, <2>3, PhotoStep
<1>6. CASE Store!CleanupDirs
  <2>1. files' = files \cap Store!Rows /\ job' = Store!NoJob /\ UNCHANGED photo
    BY <1>6 DEF Store!CleanupDirs
  <2>2. Underway' = {} /\ job' \in Jobs
    BY <2>1, NoJobIs DEF Underway
  <2>3. Store!Rows' = Store!Rows
    BY <2>1 DEF Store!Rows
  <2>4. PhotoTypes' /\ UnderwayHasNoRow'
    BY <1>1, <1>3, <2>1, <2>2 DEF PhotoTypes, UnderwayHasNoRow
  <2> QED
    BY <1>2, <1>3, <2>1, <2>2, <2>3, <2>4, PhotoStep
<1> QED
  BY <1>4, <1>5, <1>6

\* A message binds its photos; the session goes, and its directory; the daemon starts anew.
LEMMA SessionKeepsPhotoInv ==
  ASSUME PhotoInv,
         \/ \E w \in Writers : Store!Commit(w)
         \/ Store!DropSession \/ Store!DropDirectory \/ Store!Restart
  PROVE  PhotoInv'
<1>1. /\ photo \in [Photos -> {"none", "draft", "stale", "bound"}] /\ files \subseteq Photos
      /\ job \in Jobs /\ alive \in BOOLEAN
  BY DEF PhotoInv, PhotoTypes
<1>2. /\ alive => files \subseteq Store!Rows \cup Underway
      /\ Store!Rows \subseteq files /\ (~alive => Store!Rows = {})
      /\ \A p \in Underway : p \in Photos /\ photo[p] = "none"
  BY DEF PhotoInv, FilesOrUnderway, RowsOfSession, Store!PhotoHasFiles, UnderwayHasNoRow
<1>3. ASSUME NEW w \in Writers, Store!Commit(w) PROVE PhotoInv'
  <2>1. UNCHANGED <<alive, files, job>> /\ Underway' = Underway
    BY <1>3 DEF Store!Commit, Underway
  <2>2. PICK S \in SUBSET Photos :
          /\ S \subseteq Store!Drafts
          /\ photo' = [p \in Photos |-> IF p \in S THEN "bound" ELSE photo[p]]
    <3>1. CASE photo' = photo
      <4>1. /\ {} \in SUBSET Photos /\ {} \subseteq Store!Drafts
            /\ photo' = [p \in Photos |-> IF p \in {} THEN "bound" ELSE photo[p]]
        BY <1>1, <3>1
      <4> QED
        BY <4>1
    <3>2. CASE photo' # photo
      <4>1. /\ append[w].photos \subseteq Store!Drafts
            /\ photo' = [p \in Photos |-> IF p \in append[w].photos THEN "bound" ELSE photo[p]]
        BY <1>3, <3>2 DEF Store!Commit
      <4> QED
        BY <4>1 DEF Store!Drafts
    <3> QED
      BY <3>1, <3>2
  <2>3. \A p \in S : photo[p] # "none"
    BY <2>2 DEF Store!Drafts
  <2>4. Store!Rows' = Store!Rows
    BY <1>1, <2>2, <2>3 DEF Store!Rows
  <2>5. PhotoTypes' /\ UnderwayHasNoRow'
    BY <1>1, <1>2, <2>1, <2>2, <2>3 DEF PhotoTypes, UnderwayHasNoRow
  <2> QED
    BY <1>2, <2>1, <2>4, <2>5, PhotoStep
<1>4. CASE Store!DropSession
  <2>1. /\ alive' = FALSE /\ photo' = [p \in Photos |-> "none"] /\ UNCHANGED <<files, job>>
    BY <1>4 DEF Store!DropSession
  <2>2. Underway' = Underway /\ Store!Rows' = {}
    BY <2>1 DEF Underway, Store!Rows
  <2> QED
    BY <1>1, <1>2, <2>1, <2>2 DEF PhotoInv, PhotoTypes, UnderwayHasNoRow, FilesOrUnderway,
       RowsOfSession, Store!PhotoHasFiles
<1>5. CASE Store!DropDirectory
  <2>1. ~alive /\ files' = {} /\ UNCHANGED <<alive, photo, job>>
    BY <1>5 DEF Store!DropDirectory
  <2>2. Underway' = Underway /\ Store!Rows' = Store!Rows
    BY <2>1 DEF Underway, Store!Rows
  <2>3. PhotoTypes' /\ UnderwayHasNoRow'
    BY <1>1, <1>2, <2>1, <2>2 DEF PhotoTypes, UnderwayHasNoRow
  <2> QED
    BY <1>2, <2>1, <2>2, <2>3, PhotoStep
<1>6. CASE Store!Restart
  <2>1. /\ photo' = [p \in Photos |-> IF photo[p] = "stale" THEN "none" ELSE photo[p]]
        /\ files' = {p \in files : photo'[p] # "none"} /\ job' = Store!NoJob /\ UNCHANGED alive
    BY <1>6 DEF Store!Restart
  <2>2. Underway' = {} /\ job' \in Jobs
    BY <2>1, NoJobIs DEF Underway
  <2>3. Store!Rows' \subseteq Store!Rows
    BY <2>1 DEF Store!Rows
  <2>4. files' \subseteq Store!Rows' /\ Store!Rows' \subseteq files'
    BY <1>1, <1>2, <2>1, <2>3 DEF Store!Rows
  <2>5. PhotoTypes' /\ UnderwayHasNoRow'
    BY <1>1, <2>1, <2>2 DEF PhotoTypes, UnderwayHasNoRow
  <2> QED
    BY <1>2, <2>1, <2>2, <2>3, <2>4, <2>5, PhotoStep
<1> QED
  BY <1>3, <1>4, <1>5, <1>6

LEMMA NextPhotoInv ==
  ASSUME PhotoInv, [Store!StoreNext]_sessionsVars
  PROVE  PhotoInv'
<1>1. CASE UNCHANGED <<alive, photo, files, job>>
  BY <1>1 DEF PhotoInv, PhotoTypes, UnderwayHasNoRow, FilesOrUnderway, RowsOfSession,
     Store!PhotoHasFiles, Store!Rows, Underway
<1>2. ASSUME NEW w \in Writers, (\E ps \in SUBSET Photos : Store!Begin(w, ps)) \/ Store!ReadNext(w)
      PROVE  UNCHANGED <<alive, photo, files, job>>
  BY <1>2 DEF Store!Begin, Store!ReadNext, Store!photoVars
<1>3. ASSUME NEW ok \in BOOLEAN, Store!SetArchived(ok) \/ Store!SetGate(ok)
      PROVE  UNCHANGED <<alive, photo, files, job>>
  BY <1>3 DEF Store!SetArchived, Store!SetGate, Store!photoVars
<1>4. ASSUME \/ Store!SweepList \/ Store!SweepCheck \/ Store!SweepStamp \/ Store!TurnRegisters
             \/ Store!TurnRuns \/ Store!TurnEnds \/ Store!DaysPass \/ UNCHANGED sessionsVars
      PROVE  UNCHANGED <<alive, photo, files, job>>
  BY <1>4 DEF Store!SweepList, Store!SweepCheck, Store!SweepStamp, Store!TurnRegisters,
     Store!TurnRuns, Store!TurnEnds, Store!DaysPass, Store!photoVars, sessionsVars
<1> QED
  BY <1>1, <1>2, <1>3, <1>4, UploadKeepsPhotoInv, RemovalKeepsPhotoInv, CleanupKeepsPhotoInv,
     SessionKeepsPhotoInv DEF Store!StoreNext

LEMMA StoreInvMeans ==
  AppendInv /\ PhotoInv => Store!PhotoHasFiles /\ Store!FilesHaveRow /\ Store!NoAppendRefused
BY DEF AppendInv, PhotoInv, FilesOrUnderway, Underway, Store!FilesHaveRow

-----------------------------------------------------------------------------
(* The checkout of a project: what is put there goes where nothing is, and *)
(* what is in its way goes to a backup first; so the directory is bare     *)
(* after that only while something is on its way in.                       *)

Bare == code.git = 0 /\ code.file = "none"
\* Operation o has displaced something and has put nothing in its place yet.
Displaced(o) ==
  \/ op[o].at = "aside" /\ op[o].stamp # 0
  \/ op[o].at = "in" /\ op[o].todo = Checkout!Staged(o)

CodeFields == {"file", "git", "branch", "remote"}
OpFields == {"kind", "at", "force", "stamp", "todo", "proj"}
GitTypes ==
  /\ DOMAIN code = CodeFields /\ made \in Nat /\ second \in 1..MaxSeconds
  /\ DOMAIN backups = 1..MaxSeconds
  /\ \A s \in 1..MaxSeconds : DOMAIN backups[s] = {"file", "git"}
  /\ DOMAIN op = GitOps
  /\ \A o \in GitOps : DOMAIN op[o] = OpFields /\ op[o].stamp \in 0..MaxSeconds

HistoriesKept ==
  \A h \in 1..made : code.git = h \/ \E s \in 1..MaxSeconds : backups[s].git = h
BareWhileReplaced ==
  Bare /\ (\E s \in 1..MaxSeconds : backups[s] # Checkout!NoBackup)
    => cut \/ \E o \in GitOps : Displaced(o)

GitInv == GitTypes /\ HistoriesKept /\ BareWhileReplaced

LEMMA RestIs ==
  DOMAIN Checkout!Rest = OpFields /\ Checkout!Rest.stamp = 0 /\ Checkout!Rest.at = "idle"
BY DEF Checkout!Rest, OpFields

LEMMA InitGitInv == Checkout!ProjectInit => GitInv
<1> SUFFICES ASSUME Checkout!ProjectInit PROVE GitInv
  OBVIOUS
<1>1. DOMAIN code = CodeFields
  BY DEF Checkout!ProjectInit, Checkout!Empty, CodeFields
<1>2. backups = [s \in 1..MaxSeconds |-> Checkout!NoBackup] /\ made = 0 /\ second = 1
  BY DEF Checkout!ProjectInit
<1>3. 1 \in 1..MaxSeconds /\ 0 \in 0..MaxSeconds
  BY SecondsAssumption
<1>4. op = [o \in GitOps |-> Checkout!Rest]
  BY DEF Checkout!ProjectInit
<1>5. DOMAIN Checkout!NoBackup = {"file", "git"}
  BY DEF Checkout!NoBackup
<1>6. GitTypes
  BY <1>1, <1>2, <1>3, <1>4, <1>5, RestIs DEF GitTypes
<1> QED
  BY <1>2, <1>6 DEF GitInv, HistoriesKept, BareWhileReplaced

-----------------------------------------------------------------------------
\* A step that leaves the backups alone: it puts a repository only where none is, it
\* empties nothing, and who had displaced something still has, or the loss is on record.
LEMMA StepKeepsGitInv ==
  ASSUME GitInv, GitTypes', UNCHANGED backups,
         \/ code'.git = code.git /\ made' = made
         \/ code.git = 0 /\ code'.git = made + 1 /\ made' = made + 1,
         Bare' => Bare, cut => cut',
         \A o \in GitOps : Displaced(o) => Displaced(o)' \/ cut' \/ ~Bare'
  PROVE  GitInv'
<1>0. made \in Nat
  BY DEF GitInv, GitTypes
<1>1. HistoriesKept'
  <2> SUFFICES ASSUME NEW h \in 1..made'
               PROVE  code'.git = h \/ \E s \in 1..MaxSeconds : backups[s].git = h
    BY DEF HistoriesKept
  <2>1. CASE code'.git = code.git /\ made' = made
    BY <2>1 DEF GitInv, HistoriesKept
  <2>2. CASE code.git = 0 /\ code'.git = made + 1 /\ made' = made + 1
    <3>1. h = made + 1 \/ (h \in 1..made /\ h # 0)
      BY <1>0, <2>2
    <3> QED
      BY <2>2, <3>1 DEF GitInv, HistoriesKept
  <2> QED
    BY <2>1, <2>2
<1>2. BareWhileReplaced'
  BY DEF GitInv, BareWhileReplaced
<1> QED
  BY <1>1, <1>2 DEF GitInv

\* The files and the branch of the directory, and a repository where none was.
CodeStep ==
  /\ DOMAIN code' = CodeFields /\ (Bare' => Bare)
  /\ \/ code'.git = code.git /\ made' = made
     \/ code.git = 0 /\ code'.git = made + 1 /\ made' = made + 1
\* What operation o does next, when it was not replacing anything.
OpStep(o) ==
  \E next : /\ DOMAIN next = OpFields /\ next.stamp \in {0, op[o].stamp}
            /\ op' = [op EXCEPT ![o] = next]

LEMMA OpStepKeepsGitInv ==
  ASSUME GitInv, NEW o \in GitOps, OpStep(o), CodeStep, UNCHANGED <<backups, second>>, cut => cut',
         Displaced(o) => cut' \/ ~Bare' \/ Displaced(o)'
  PROVE  GitInv'
<1>1. /\ DOMAIN code = CodeFields /\ made \in Nat /\ second \in 1..MaxSeconds
      /\ DOMAIN backups = 1..MaxSeconds
      /\ \A s \in 1..MaxSeconds : DOMAIN backups[s] = {"file", "git"}
      /\ DOMAIN op = GitOps
      /\ \A p \in GitOps : DOMAIN op[p] = OpFields /\ op[p].stamp \in 0..MaxSeconds
  BY DEF GitInv, GitTypes
<1>2. PICK next : /\ DOMAIN next = OpFields /\ next.stamp \in {0, op[o].stamp}
                  /\ op' = [op EXCEPT ![o] = next]
  BY DEF OpStep
<1>3. next.stamp \in 0..MaxSeconds
  BY <1>1, <1>2, SecondsAssumption
<1>4. GitTypes'
  BY <1>1, <1>2, <1>3 DEF GitTypes, CodeStep
<1>5. \A p \in GitOps : p # o => op'[p] = op[p]
  BY <1>1, <1>2
<1>6. \A p \in GitOps : p # o => (Displaced(p) => Displaced(p)')
  BY <1>5 DEF Displaced, Checkout!Staged
<1> QED
  BY <1>4, <1>6, StepKeepsGitInv DEF CodeStep

LEMMA NowIsOpStep ==
  ASSUME GitInv, NEW o \in GitOps, NEW step, Checkout!Now(o, step)
  PROVE  OpStep(o)
<1>1. DOMAIN op[o] = OpFields
  BY DEF GitInv, GitTypes
<1> DEFINE next == [op[o] EXCEPT !.at = step, !.todo = Checkout!Listed(o, step)]
<1>2. DOMAIN next = OpFields /\ next.stamp = op[o].stamp
  BY <1>1 DEF OpFields
<1>3. op' = [op EXCEPT ![o] = next]
  BY DEF Checkout!Now
<1> QED
  BY <1>2, <1>3 DEF OpStep

LEMMA FromRest ==
  /\ \A policy, force : /\ DOMAIN Checkout!Archive(policy, force) = OpFields
                        /\ Checkout!Archive(policy, force).stamp = 0
  /\ \A kind, at, proj :
       LET next == [Checkout!Rest EXCEPT !.kind = kind, !.at = at, !.proj = proj]
       IN  DOMAIN next = OpFields /\ next.stamp = 0
  /\ \A kind, at :
       LET next == [Checkout!Rest EXCEPT !.kind = kind, !.at = at]
       IN  DOMAIN next = OpFields /\ next.stamp = 0
BY DEF Checkout!Rest, Checkout!Archive, OpFields

LEMMA EndIsOpStep ==
  ASSUME NEW o, Checkout!Done(o) \/ Checkout!GiveUp(o)
  PROVE  OpStep(o)
<1>1. CASE op' = [op EXCEPT ![o] = Checkout!Rest]
  BY <1>1, RestIs DEF OpStep
<1>2. CASE op' = [op EXCEPT ![o] = Checkout!Archive(Checkout!Connected, op[o].force)]
  BY <1>2, FromRest DEF OpStep
<1> QED
  BY <1>1, <1>2 DEF Checkout!Done, Checkout!GiveUp

LEMMA ReadingIsOpStep ==
  ASSUME NEW o, NEW kind, NEW force, NEW proj,
         op' = [op EXCEPT ![o] = Checkout!AfterReading(kind, force, proj)]
  PROVE  OpStep(o)
<1> DEFINE next == Checkout!AfterReading(kind, force, proj)
<1>1. \/ next = Checkout!Archive(Checkout!Unset, force)
      \/ \E p : next = [Checkout!Rest EXCEPT !.kind = kind, !.at = "lock", !.proj = p]
      \/ next = [Checkout!Rest EXCEPT !.kind = kind, !.at = "ledger"]
      \/ next = Checkout!Rest
  BY DEF Checkout!AfterReading
<1> HIDE DEF next
<1>2. ASSUME \E p : next = [Checkout!Rest EXCEPT !.kind = kind, !.at = "lock", !.proj = p]
      PROVE  DOMAIN next = OpFields /\ next.stamp = 0
  <2>1. PICK p : next = [Checkout!Rest EXCEPT !.kind = kind, !.at = "lock", !.proj = p]
    BY <1>2
  <2> QED
    BY <2>1, RestIs DEF OpFields
<1>3. ASSUME next = [Checkout!Rest EXCEPT !.kind = kind, !.at = "ledger"]
      PROVE  DOMAIN next = OpFields /\ next.stamp = 0
  BY <1>3, RestIs DEF OpFields
<1>4. ASSUME next = Checkout!Archive(Checkout!Unset, force)
      PROVE  DOMAIN next = OpFields /\ next.stamp = 0
  BY <1>4, FromRest
<1>5. ASSUME next = Checkout!Rest
      PROVE  DOMAIN next = OpFields /\ next.stamp = 0
  BY <1>5, RestIs
<1>6. DOMAIN next = OpFields /\ next.stamp = 0
  BY <1>1, <1>2, <1>3, <1>4, <1>5
<1> QED
  BY <1>6 DEF OpStep, next

-----------------------------------------------------------------------------
\* The operations up to their lock, and what of them touches neither code nor backups.
LEMMA QuietKeepsGitInv ==
  ASSUME GitInv, NEW o \in GitOps,
         \/ \E kind \in Checkout!Kinds, force \in BOOLEAN : Checkout!Start(o, kind, force)
         \/ \E force \in BOOLEAN : Checkout!FromGitHub(o, force)
         \/ Checkout!ReconcileAgain(o) \/ Checkout!Lock(o) \/ Checkout!CheckTree(o)
         \/ Checkout!Fetch(o) \/ Checkout!Confirm(o) \/ Checkout!Clone(o)
         \/ Checkout!DownloadArchive(o) \/ Checkout!SaveLedger(o)
  PROVE  GitInv'
<1>1. UNCHANGED <<code, backups, second, made, cut>>
  BY DEF Checkout!Start, Checkout!Reconcile, Checkout!FromGitHub, Checkout!ReconcileAgain,
     Checkout!Lock, Checkout!CheckTree, Checkout!Fetch, Checkout!Confirm, Checkout!Clone,
     Checkout!DownloadArchive, Checkout!SaveLedger
<1>2. op[o].at \notin {"aside", "in"}
  BY DEF Checkout!Start, Checkout!FromGitHub, Checkout!ReconcileAgain, Checkout!Lock,
     Checkout!CheckTree, Checkout!Fetch, Checkout!Confirm, Checkout!Clone,
     Checkout!DownloadArchive, Checkout!SaveLedger, Checkout!At
<1>3. OpStep(o)
  <2>1. ASSUME NEW kind \in Checkout!Kinds, NEW force \in BOOLEAN, Checkout!Start(o, kind, force)
        PROVE  OpStep(o)
    BY <2>1, ReadingIsOpStep DEF Checkout!Start, Checkout!Reconcile
  <2>2. ASSUME NEW force \in BOOLEAN, Checkout!FromGitHub(o, force) PROVE OpStep(o)
    <3> DEFINE proj == [Checkout!Connected EXCEPT !.mode = "git"]
               next == [Checkout!Rest EXCEPT !.kind = "github", !.at = "lock", !.force = force,
                                             !.proj = proj]
    <3>1. op' = [op EXCEPT ![o] = next]
      BY <2>2 DEF Checkout!FromGitHub
    <3>2. DOMAIN next = OpFields /\ next.stamp = 0
      BY RestIs DEF OpFields
    <3> QED
      BY <3>1, <3>2 DEF OpStep
  <2>3. CASE Checkout!ReconcileAgain(o)
    BY <2>3, RestIs DEF Checkout!ReconcileAgain, Checkout!Reconcile, OpStep
  <2>4. CASE Checkout!Lock(o)
    <3>1. CASE Checkout!Done(o) \/ \E step \in {Checkout!After("github", "start"), "material"} : Checkout!Now(o, step)
      BY <3>1, EndIsOpStep, NowIsOpStep
    <3>2. CASE \E p : op' = [op EXCEPT ![o].at = "check", ![o].proj = p]
      <4>1. PICK p : op' = [op EXCEPT ![o].at = "check", ![o].proj = p]
        BY <3>2
      <4> DEFINE next == [op[o] EXCEPT !.at = "check", !.proj = p]
      <4>2. DOMAIN op[o] = OpFields
        BY DEF GitInv, GitTypes
      <4>3. DOMAIN next = OpFields /\ next.stamp = op[o].stamp
        BY <4>2 DEF OpFields
      <4>4. op' = [op EXCEPT ![o] = next]
        BY <4>1
      <4> QED
        BY <4>3, <4>4 DEF OpStep
    <3> QED
      BY <2>4, <3>1, <3>2 DEF Checkout!Lock
  <2>5. CASE Checkout!CheckTree(o) \/ Checkout!Confirm(o) \/ Checkout!Fetch(o)
    BY <2>5, EndIsOpStep, NowIsOpStep DEF Checkout!CheckTree, Checkout!Confirm, Checkout!Fetch
  <2>6. CASE Checkout!Clone(o) \/ Checkout!DownloadArchive(o)
    BY <2>6, NowIsOpStep DEF Checkout!Clone, Checkout!DownloadArchive
  <2>7. CASE Checkout!SaveLedger(o)
    <3>1. CASE Checkout!Done(o)
      BY <3>1, EndIsOpStep
    <3>2. CASE op' = [op EXCEPT ![o] = [Checkout!Rest EXCEPT !.at = "read"]]
      <4>1. DOMAIN [Checkout!Rest EXCEPT !.at = "read"] = OpFields
            /\ [Checkout!Rest EXCEPT !.at = "read"].stamp = 0
        BY RestIs DEF OpFields
      <4> QED
        BY <3>2, <4>1 DEF OpStep
    <3> QED
      BY <2>7, <3>1, <3>2 DEF Checkout!SaveLedger
  <2> QED
    BY <2>1, <2>2, <2>3, <2>4, <2>5, <2>6, <2>7
<1>4. CodeStep
  BY <1>1 DEF CodeStep, Bare, GitInv, GitTypes
<1> QED
  BY <1>1, <1>2, <1>3, <1>4, OpStepKeepsGitInv DEF Displaced

\* A new repository comes where none is.
LEMMA NewIsCodeStep ==
  ASSUME GitInv, code.git = 0, DOMAIN code' = CodeFields,
         code'.git = made', made' = made + 1
  PROVE  CodeStep /\ ~Bare'
<1>1. made \in Nat
  BY DEF GitInv, GitTypes
<1>2. ~Bare'
  BY <1>1 DEF Bare
<1> QED
  BY <1>2 DEF CodeStep

LEMMA NewHistoryIsCodeStep ==
  ASSUME GitInv, NEW from, NEW remote, code.git = 0, Checkout!NewHistory(from, remote)
  PROVE  CodeStep /\ ~Bare'
<1>1. DOMAIN code' = CodeFields /\ code'.git = made' /\ made' = made + 1
  BY DEF Checkout!NewHistory, CodeFields
<1> QED
  BY <1>1, NewIsCodeStep

LEMMA EditIsCodeStep ==
  ASSUME GitInv, UNCHANGED made,
         \/ code' = code
         \/ \E b : code' = [code EXCEPT !.branch = b]
         \/ \E r : code' = [code EXCEPT !.remote = r]
         \/ \E f \in {"mine", "theirs"} : code' = [code EXCEPT !.file = f]
  PROVE  CodeStep
BY DEF GitInv, GitTypes, CodeFields, CodeStep, Bare

\* Those that change the code directory in place.
LEMMA CodeKeepsGitInv ==
  ASSUME GitInv, NEW o \in GitOps,
         \/ \E force \in BOOLEAN, asked \in Checkout!Policies : Checkout!Configure(o, force, asked)
         \/ Checkout!Materialize(o) \/ Checkout!CheckoutDefault(o) \/ Checkout!FastForward(o)
         \/ Checkout!Place(o) \/ Checkout!StartWork(o)
  PROVE  GitInv'
<1>1. UNCHANGED <<backups, second, cut>>
  BY DEF Checkout!Configure, Checkout!Materialize, Checkout!CheckoutDefault,
     Checkout!FastForward, Checkout!Place, Checkout!StartWork
<1>2. op[o].at \notin {"aside", "in"}
  BY DEF Checkout!Configure, Checkout!Materialize, Checkout!CheckoutDefault,
     Checkout!FastForward, Checkout!Place, Checkout!StartWork, Checkout!At
<1>3. OpStep(o) /\ CodeStep
  <2>1. ASSUME NEW force \in BOOLEAN, NEW asked \in Checkout!Policies,
               Checkout!Configure(o, force, asked)
        PROVE  OpStep(o) /\ CodeStep
    <3>1. PICK step, policy :
            op' = [op EXCEPT ![o] = [Checkout!Rest EXCEPT !.kind = "configure", !.at = step,
                                       !.proj = policy, !.todo = Checkout!Listed(o, step)]]
      BY <2>1 DEF Checkout!Configure
    <3> DEFINE next == [Checkout!Rest EXCEPT !.kind = "configure", !.at = step,
                                             !.proj = policy, !.todo = Checkout!Listed(o, step)]
    <3>2. DOMAIN next = OpFields /\ next.stamp = 0
      BY RestIs DEF OpFields
    <3>3. OpStep(o)
      BY <3>1, <3>2 DEF OpStep
    <3>4. CASE UNCHANGED made
      <4>1. code' = code \/ \E r : code' = [code EXCEPT !.remote = r]
        <5>1. made # made + 1
          BY DEF GitInv, GitTypes
        <5> QED
          BY <2>1, <3>4, <5>1 DEF Checkout!Configure, Checkout!NewHistory
      <4>2. ASSUME NEW r, code' = [code EXCEPT !.remote = r] PROVE CodeStep
        BY <3>4, <4>2, EditIsCodeStep
      <4> QED
        BY <3>3, <3>4, <4>1, <4>2, EditIsCodeStep
    <3>5. CASE ~UNCHANGED made
      <4>1. code.git = 0 /\ Checkout!NewHistory(code.file, FALSE)
        BY <2>1, <3>5 DEF Checkout!Configure, Checkout!Detected
      <4>2. DOMAIN code' = CodeFields /\ code'.git = made' /\ made' = made + 1
        BY <4>1 DEF Checkout!NewHistory, CodeFields
      <4> QED
        BY <3>3, <4>1, <4>2, NewIsCodeStep
    <3> QED
      BY <3>3, <3>4, <3>5
  <2>2. CASE Checkout!Materialize(o)
    <3>1. OpStep(o)
      BY <2>2, EndIsOpStep, NowIsOpStep DEF Checkout!Materialize
    <3>2. CASE UNCHANGED <<code, made>>
      BY <3>1, <3>2, EditIsCodeStep
    <3>3. CASE ~UNCHANGED <<code, made>>
      <4>1. /\ code.git = 0
            /\ Checkout!NewHistory(IF op[o].proj.remote THEN "theirs" ELSE code.file, op[o].proj.remote)
        BY <2>2, <3>3 DEF Checkout!Materialize, Checkout!Detected
      <4> QED
        BY <3>1, <4>1, NewHistoryIsCodeStep
    <3> QED
      BY <3>2, <3>3
  <2>3. CASE Checkout!CheckoutDefault(o)
    <3>1. OpStep(o)
      BY <2>3, EndIsOpStep, NowIsOpStep DEF Checkout!CheckoutDefault
    <3>2. UNCHANGED made /\ (code' = code \/ \E b : code' = [code EXCEPT !.branch = b])
      BY <2>3 DEF Checkout!CheckoutDefault
    <3> QED
      BY <3>1, <3>2, EditIsCodeStep
  <2>4. CASE Checkout!FastForward(o)
    <3>1. OpStep(o)
      BY <2>4, EndIsOpStep, NowIsOpStep DEF Checkout!FastForward
    <3>2. UNCHANGED made /\ (code' = code \/ code' = [code EXCEPT !.file = "theirs"])
      BY <2>4 DEF Checkout!FastForward
    <3> QED
      BY <3>1, <3>2, EditIsCodeStep
  <2>5. CASE Checkout!Place(o)
    <3>1. OpStep(o)
      BY <2>5, EndIsOpStep, NowIsOpStep DEF Checkout!Place
    <3>2. CASE UNCHANGED <<code, made>>
      BY <3>1, <3>2, EditIsCodeStep
    <3>3. CASE ~UNCHANGED <<code, made>>
      <4>1. ~Checkout!DirHasEntries /\ Checkout!NewHistory("theirs", TRUE)
        BY <2>5, <3>3 DEF Checkout!Place
      <4>2. code.git = 0
        BY <4>1 DEF Checkout!DirHasEntries, Checkout!Entries, Checkout!Detected
      <4> QED
        BY <3>1, <4>1, <4>2, NewHistoryIsCodeStep
    <3> QED
      BY <3>2, <3>3
  <2>6. CASE Checkout!StartWork(o)
    <3>1. OpStep(o)
      BY <2>6, EndIsOpStep DEF Checkout!StartWork
    <3>2. UNCHANGED made /\ (code' = code \/ \E b : code' = [code EXCEPT !.branch = b])
      BY <2>6 DEF Checkout!StartWork, Checkout!Branched
    <3> QED
      BY <3>1, <3>2, EditIsCodeStep
  <2> QED
    BY <2>1, <2>2, <2>3, <2>4, <2>5, <2>6
<1> QED
  BY <1>1, <1>2, <1>3, OpStepKeepsGitInv DEF Displaced

-----------------------------------------------------------------------------
\* An entry moves to the backup of this operation's second.
LEMMA AsideKeepsGitInv ==
  ASSUME GitInv, NEW o \in GitOps, Checkout!MoveAside(o)
  PROVE  GitInv'
<1>0. /\ DOMAIN code = CodeFields /\ made \in Nat /\ second \in 1..MaxSeconds
      /\ DOMAIN backups = 1..MaxSeconds
      /\ \A s \in 1..MaxSeconds : DOMAIN backups[s] = {"file", "git"}
      /\ DOMAIN op = GitOps
      /\ \A p \in GitOps : DOMAIN op[p] = OpFields /\ op[p].stamp \in 0..MaxSeconds
  BY DEF GitInv, GitTypes
<1> DEFINE first == Checkout!First(o)
           s == Checkout!Stamp(o)
<1>1. s \in 1..MaxSeconds
  BY <1>0, SecondsAssumption DEF Checkout!Stamp
<1>2. /\ op[o].at = "aside" /\ UNCHANGED <<made, second, cut>>
      /\ backups' = Checkout!Displaced(first, s)
      /\ code' = IF first = "git" THEN [code EXCEPT !.git = 0, !.branch = "none", !.remote = FALSE]
                 ELSE [code EXCEPT !.file = "none"]
      /\ op' = [op EXCEPT ![o].stamp = s, ![o].todo = @ \ {first}]
      /\ first = "git" => backups[s].git = 0
  BY DEF Checkout!MoveAside, Checkout!Stuck, Checkout!At
<1> DEFINE next == [op[o] EXCEPT !.stamp = s, !.todo = @ \ {first}]
<1>3. DOMAIN next = OpFields /\ next.stamp = s /\ next.at = "aside"
  BY <1>0, <1>2 DEF OpFields
<1>4. op' = [op EXCEPT ![o] = next]
  BY <1>2
<1>5. s # 0 /\ s \in 0..MaxSeconds
  BY <1>1, SecondsAssumption
<1>6. PICK kept : /\ DOMAIN kept = {"file", "git"}
                  /\ backups' = [backups EXCEPT ![s] = kept]
                  /\ kept.git = IF first = "git" THEN code.git ELSE backups[s].git
  <2>1. CASE first = "git"
    <3> DEFINE kept == [backups[s] EXCEPT !.git = code.git]
    <3>1. DOMAIN kept = {"file", "git"} /\ kept.git = code.git
      BY <1>0, <1>1
    <3>2. backups' = [backups EXCEPT ![s] = kept]
      BY <1>2, <2>1 DEF Checkout!Displaced
    <3> QED
      BY <2>1, <3>1, <3>2
  <2>2. CASE first # "git"
    <3> DEFINE kept == [backups[s] EXCEPT !.file = TRUE]
    <3>1. DOMAIN kept = {"file", "git"} /\ kept.git = backups[s].git
      BY <1>0, <1>1
    <3>2. backups' = [backups EXCEPT ![s] = kept]
      BY <1>2, <2>2 DEF Checkout!Displaced
    <3> QED
      BY <2>2, <3>1, <3>2
  <2> QED
    BY <2>1, <2>2
<1>7. DOMAIN code' = CodeFields /\ code'.git = IF first = "git" THEN 0 ELSE code.git
  BY <1>0, <1>2 DEF CodeFields
<1>8. first = "git" => backups[s].git = 0
  BY <1>2
<1> HIDE DEF first, s, next
<1>9. GitTypes'
  BY <1>0, <1>2, <1>3, <1>4, <1>5, <1>6, <1>7 DEF GitTypes
<1>10. HistoriesKept'
  <2> SUFFICES ASSUME NEW h \in 1..made
               PROVE  code'.git = h \/ \E t \in 1..MaxSeconds : backups'[t].git = h
    BY <1>2 DEF HistoriesKept
  <2>1. h # 0
    BY <1>0
  <2>2. CASE code.git = h
    BY <1>0, <1>1, <1>6, <1>7, <2>2
  <2>3. ASSUME NEW t \in 1..MaxSeconds, backups[t].git = h PROVE \E u \in 1..MaxSeconds : backups'[u].git = h
    <3>1. CASE t = s
      BY <1>0, <1>1, <1>6, <1>8, <2>1, <2>3, <3>1
    <3>2. CASE t # s
      BY <1>0, <1>1, <1>6, <2>3, <3>2
    <3> QED
      BY <3>1, <3>2
  <2> QED
    BY <2>2, <2>3 DEF GitInv, HistoriesKept
<1>11. Displaced(o)'
  BY <1>0, <1>3, <1>4, <1>5 DEF Displaced
<1> QED
  BY <1>9, <1>10, <1>11 DEF GitInv, BareWhileReplaced

\* What was staged moves in; the operation ends, or fails, and says so.
LEMMA InKeepsGitInv ==
  ASSUME GitInv, NEW o \in GitOps,
         \/ Checkout!Moved(o) \/ Checkout!MoveIn(o) \/ Checkout!MovedIn(o)
         \/ Checkout!Blocked(o) \/ Checkout!Fail(o)
  PROVE  GitInv'
<1>0. DOMAIN op = GitOps /\ DOMAIN op[o] = OpFields /\ DOMAIN code = CodeFields
  BY DEF GitInv, GitTypes
<1>1. CASE Checkout!Moved(o)
  <2>1. Checkout!Now(o, "in") /\ UNCHANGED <<code, backups, second, made, cut>>
    BY <1>1 DEF Checkout!Moved, Checkout!After
  <2>2. OpStep(o) /\ CodeStep
    BY <2>1, NowIsOpStep, EditIsCodeStep
  <2>3. op'[o] = [op[o] EXCEPT !.at = "in", !.todo = Checkout!Staged(o)]
    BY <1>0, <2>1 DEF Checkout!Now, Checkout!Listed
  <2>4. op'[o].at = "in" /\ op'[o].todo = Checkout!Staged(o) /\ op'[o].kind = op[o].kind
    BY <1>0, <2>3 DEF OpFields
  <2>5. Displaced(o)'
    BY <2>4 DEF Displaced, Checkout!Staged
  <2> QED
    BY <2>1, <2>2, <2>5, OpStepKeepsGitInv
<1>2. CASE Checkout!MoveIn(o)
  <2>1. /\ UNCHANGED <<backups, second, cut>>
        /\ op' = [op EXCEPT ![o].todo = @ \ {Checkout!First(o)}]
        /\ op[o].at = "in"
    BY <1>2 DEF Checkout!MoveIn, Checkout!At
  <2> DEFINE next == [op[o] EXCEPT !.todo = @ \ {Checkout!First(o)}]
  <2>2. DOMAIN next = OpFields /\ next.stamp = op[o].stamp
    BY <1>0 DEF OpFields
  <2>3. OpStep(o)
    <3>1. op' = [op EXCEPT ![o] = next]
      BY <2>1
    <3> QED
      BY <2>2, <3>1 DEF OpStep
  <2>4. CodeStep /\ ~Bare'
    <3>1. CASE Checkout!First(o) = "git"
      <4>1. Checkout!NewHistory(code.file, TRUE) /\ code.git = 0
        BY <1>2, <3>1 DEF Checkout!MoveIn, Checkout!Stuck, Checkout!At, Checkout!Detected
      <4>2. DOMAIN code' = CodeFields /\ code'.git = made' /\ made' = made + 1
        BY <4>1 DEF Checkout!NewHistory, CodeFields
      <4> QED
        BY <4>1, <4>2, NewIsCodeStep
    <3>2. CASE Checkout!First(o) # "git"
      <4>1. code' = [code EXCEPT !.file = "theirs"] /\ UNCHANGED made
        BY <1>2, <3>2 DEF Checkout!MoveIn
      <4>2. code'.file = "theirs"
        BY <1>0, <4>1 DEF CodeFields
      <4> QED
        BY <4>1, <4>2, EditIsCodeStep DEF Bare
    <3> QED
      BY <3>1, <3>2
  <2> QED
    BY <2>1, <2>3, <2>4, OpStepKeepsGitInv
<1>3. CASE Checkout!MovedIn(o)
  <2>1. /\ UNCHANGED <<code, backups, second, made, cut>> /\ op[o].at = "in" /\ op[o].todo = {}
        /\ op' = [op EXCEPT ![o].at = "ledger",
                            ![o].proj.mode = IF op[o].kind = "archive" THEN "snapshot" ELSE "git"]
    BY <1>3 DEF Checkout!MovedIn, Checkout!At
  <2> DEFINE next == [op[o] EXCEPT !.at = "ledger",
                        !.proj.mode = IF op[o].kind = "archive" THEN "snapshot" ELSE "git"]
  <2>2. DOMAIN next = OpFields /\ next.stamp = op[o].stamp
    BY <1>0 DEF OpFields
  <2>3. OpStep(o)
    <3>1. op' = [op EXCEPT ![o] = next]
      BY <2>1
    <3> QED
      BY <2>2, <3>1 DEF OpStep
  <2>4. ~Displaced(o)
    BY <2>1 DEF Displaced, Checkout!Staged
  <2> QED
    BY <2>1, <2>3, <2>4, EditIsCodeStep, OpStepKeepsGitInv
<1>4. CASE Checkout!Blocked(o)
  <2>1. Checkout!Done(o) /\ cut' = TRUE /\ UNCHANGED <<code, backups, second, made>>
    BY <1>4 DEF Checkout!Blocked
  <2> QED
    BY <2>1, EndIsOpStep, EditIsCodeStep, OpStepKeepsGitInv
<1>5. CASE Checkout!Fail(o)
  <2>1. /\ Checkout!GiveUp(o) /\ UNCHANGED <<code, backups, second, made>>
        /\ cut' = (cut \/ op[o].at = "in" \/ (op[o].at = "aside" /\ op[o].stamp # 0))
    BY <1>5 DEF Checkout!Fail
  <2>2. Displaced(o) => cut'
    BY <2>1 DEF Displaced
  <2>3. cut => cut'
    BY <2>1
  <2> QED
    BY <2>1, <2>2, <2>3, EndIsOpStep, EditIsCodeStep, OpStepKeepsGitInv
<1> QED
  BY <1>1, <1>2, <1>3, <1>4, <1>5

LEMMA NextGitInv ==
  ASSUME GitInv, [Checkout!ProjectNext]_gitVars
  PROVE  GitInv'
<1>0. /\ DOMAIN code = CodeFields /\ made \in Nat /\ second \in 1..MaxSeconds
      /\ DOMAIN backups = 1..MaxSeconds
      /\ \A s \in 1..MaxSeconds : DOMAIN backups[s] = {"file", "git"}
      /\ DOMAIN op = GitOps
      /\ \A p \in GitOps : DOMAIN op[p] = OpFields /\ op[p].stamp \in 0..MaxSeconds
  BY DEF GitInv, GitTypes
<1>1. CASE UNCHANGED <<op, backups, cut>> /\ CodeStep /\ second' \in 1..MaxSeconds
  <2>1. GitTypes'
    <3>1. made' \in Nat
      BY <1>0, <1>1 DEF CodeStep
    <3> QED
      BY <1>0, <1>1, <3>1 DEF GitTypes, CodeStep
  <2>2. \A o \in GitOps : Displaced(o) => Displaced(o)'
    BY <1>1 DEF Displaced, Checkout!Staged
  <2> QED
    BY <1>1, <2>1, <2>2, StepKeepsGitInv DEF CodeStep
<1>2. CASE \/ Checkout!TurnBegins \/ Checkout!TurnEnds \/ Checkout!Edit \/ Checkout!Commit
           \/ UNCHANGED gitVars
  <2>1. UNCHANGED <<op, backups, cut, second, made>>
    BY <1>2 DEF Checkout!TurnBegins, Checkout!TurnEnds, Checkout!Edit, Checkout!Commit, gitVars
  <2>2. code' = code \/ \E f \in {"mine", "theirs"} : code' = [code EXCEPT !.file = f]
    BY <1>2 DEF Checkout!TurnBegins, Checkout!TurnEnds, Checkout!Edit, Checkout!Commit, gitVars
  <2> QED
    BY <1>0, <1>1, <2>1, <2>2, EditIsCodeStep
<1>3. CASE Checkout!GitInit
  BY <1>0, <1>1, <1>3, NewHistoryIsCodeStep DEF Checkout!GitInit, Checkout!Detected
<1>4. CASE Checkout!Tick
  <2>1. UNCHANGED <<op, backups, cut, code, made>> /\ second < MaxSeconds /\ second' = second + 1
    BY <1>4 DEF Checkout!Tick
  <2>2. second' \in 1..MaxSeconds
    BY <1>0, <2>1, SecondsAssumption
  <2> QED
    BY <1>1, <2>1, <2>2, EditIsCodeStep
<1>5. CASE Checkout!Die
  <2>1. /\ UNCHANGED <<code, backups, second, made>>
        /\ cut' = (cut \/ \E o \in GitOps : op[o].at = "in" \/ (op[o].at = "aside" /\ op[o].stamp # 0))
        /\ op' = [o \in GitOps |-> Checkout!Rest]
    BY <1>5 DEF Checkout!Die
  <2>2. \A o \in GitOps : Displaced(o) => cut'
    BY <2>1 DEF Displaced
  <2>3. GitTypes'
    BY <1>0, <2>1, RestIs, SecondsAssumption DEF GitTypes
  <2>4. cut => cut'
    BY <2>1
  <2>5. Bare' => Bare
    BY <2>1 DEF Bare
  <2> QED
    BY <2>1, <2>2, <2>3, <2>4, <2>5, StepKeepsGitInv
<1>6. ASSUME NEW o \in GitOps,
             \E kind \in Checkout!Kinds \ {"archive", "configure", "github"}, force \in BOOLEAN :
               Checkout!Start(o, kind, force)
      PROVE  GitInv'
  BY <1>6, QuietKeepsGitInv
<1> QED
  BY <1>2, <1>3, <1>4, <1>5, <1>6, QuietKeepsGitInv, CodeKeepsGitInv, AsideKeepsGitInv,
     InKeepsGitInv DEF Checkout!ProjectNext

LEMMA GitInvMeans == GitInv => Checkout!NothingLeftOut
<1> SUFFICES ASSUME GitInv PROVE Checkout!NothingLeftOut
  OBVIOUS
<1>1. DOMAIN backups = 1..MaxSeconds
  BY DEF GitInv, GitTypes
<1>2. ~Checkout!DirHasEntries => Bare
  BY DEF Checkout!DirHasEntries, Checkout!Entries, Checkout!Detected, Bare
<1>3. \A o \in GitOps : Displaced(o) => Checkout!ReplacingNow(o)
  BY DEF Displaced, Checkout!ReplacingNow
<1> QED
  BY <1>1, <1>2, <1>3 DEF GitInv, HistoriesKept, BareWhileReplaced, Checkout!NothingLeftOut

-----------------------------------------------------------------------------
(* The schema: each migration finds the tables and columns the earlier     *)
(* ones left (Fits), so what a rebuild copies is all there is.             *)

Born(t) ==
  CASE t \in {"agents", "sessions", "messages"} -> 2
    [] t = "schedule_runs" -> 4 [] t = "tasks" -> 5 [] t = "push_subscriptions" -> 8
    [] t = "dreams" -> 10 [] t \in {"goals", "goal_events", "access_requests"} -> 14
    [] t = "goal_rate_limits" -> 18 [] t = "agent_questions" -> 22 [] t = "goal_runs" -> 24
    [] t = "attachments" -> 27 [] t = "goal_action_items" -> 31
    [] t = "workspace_file_snapshots" -> 34
    [] t \in {"notifications", "notification_deliveries", "notification_preferences"} -> 37
    [] t = "notification_devices" -> 38
    [] OTHER -> 42
\* The migrations that give t a column.
AddedTo(t) ==
  CASE t = "sessions" -> {3, 5, 7, 10, 11, 13, 14, 16, 32, 36, 40}
    [] t = "agents" -> {9, 15} [] t = "tasks" -> {11, 17, 21, 33} [] t = "messages" -> {12}
    [] t = "goals" -> {17, 24, 29} [] t = "goal_events" -> {24, 41}
    [] t = "goal_rate_limits" -> {24} [] t = "notification_devices" -> {39}
    [] t = "goal_runs" -> {42} [] OTHER -> {}
AddedBefore(t, v) == {w \in AddedTo(t) : w < v}
\* The values the newest CHECK of t admits, and since when.
Values(t) ==
  CASE t = "sessions" -> {"web", "schedule", "onboarding", "goal", "interview"}
    [] t = "messages" -> {"message", "error", "reasoning", "narration"}
    [] t = "schedule_runs" -> {"cron", "manual", "webhook"}
    [] t = "goal_events" -> {"created", "rate_limited", "user_feedback", "tool_use",
                             "question_asked", "action_requested"}
    [] OTHER -> {"-"}
Since(x) ==
  CASE x = "onboarding" -> 6 [] x = "error" -> 12 [] x = "goal" -> 14 [] x = "rate_limited" -> 18
    [] x = "reasoning" -> 19 [] x = "user_feedback" -> 20 [] x = "tool_use" -> 21
    [] x = "question_asked" -> 22 [] x = "interview" -> 26 [] x = "narration" -> 30
    [] x = "action_requested" -> 31 [] x = "webhook" -> 35 [] OTHER -> 0
AdmittedAt(t, v) == {x \in Values(t) : Since(x) <= v}

\* Migration m is the v-th: its tables are new, a table it rebuilds is there and keeps
\* all its columns, a CHECK admits what it admitted and what is new, and a rebuilt
\* table gets its trigger again.
Fits(v, m) ==
  /\ m.new = {t \in Migrate!Tables : Born(t) = v}
  /\ \A t \in m.adds : v \in AddedTo(t)
  /\ \A t \in DOMAIN m.keeps :
       t \in Migrate!Tables /\ Born(t) < v /\ m.keeps[t] = AddedBefore(t, v)
  /\ \A t \in DOMAIN m.admits : m.admits[t] = AdmittedAt(t, v)
  /\ \A t \in Migrate!Tables \ DOMAIN m.admits :
       /\ Born(t) = v => Values(t) = Migrate!Plain
       /\ Born(t) < v => \A x \in Values(t) : Since(x) # v
  /\ {"sessions", "goal_events"} \cap (m.new \cup DOMAIN m.keeps) \subseteq m.guards
  /\ m.fills = CASE v = 24 -> {<<"goal_runs", "goal_events">>}
                 [] v = 42 -> {<<"goal_memories", "goals">>}
                 [] OTHER -> {}

(* Which migration is which. *)
LEMMA MigrationNumbers ==
  /\ Migrate!Versions = 1..42
  /\ Migrate!migrations[2] = Migrate!core_domain
  /\ Migrate!migrations[3] = Migrate!session_metadata_and_settings
  /\ Migrate!migrations[4] = Migrate!schedule_runs
  /\ Migrate!migrations[5] = Migrate!tasks
  /\ Migrate!migrations[6] = Migrate!onboarding_origin
  /\ Migrate!migrations[7] = Migrate!session_project_id
  /\ Migrate!migrations[8] = Migrate!push_subscriptions
  /\ Migrate!migrations[9] = Migrate!agent_mcp_servers
  /\ Migrate!migrations[10] = Migrate!agent_memory_dreaming
  /\ Migrate!migrations[11] = Migrate!plan_mode
  /\ Migrate!migrations[12] = Migrate!message_kind
  /\ Migrate!migrations[13] = Migrate!session_context_window
  /\ Migrate!migrations[14] = Migrate!goals
  /\ Migrate!migrations[15] = Migrate!agent_avatar
  /\ Migrate!migrations[16] = Migrate!session_token_usage
  /\ Migrate!migrations[17] = Migrate!run_targets
  /\ Migrate!migrations[18] = Migrate!goal_rate_limit_recovery
  /\ Migrate!migrations[19] = Migrate!message_reasoning_kind
  /\ Migrate!migrations[20] = Migrate!goal_user_feedback_events
  /\ Migrate!migrations[21] = Migrate!goal_yolo_tool_audit
  /\ Migrate!migrations[22] = Migrate!agent_questions
  /\ Migrate!migrations[23] = Migrate!editable_unread_goal_feedback
  /\ Migrate!migrations[24] = Migrate!goal_runs_and_lead_session
  /\ Migrate!migrations[25] = Migrate!drop_provider_checks
  /\ Migrate!migrations[26] = Migrate!interview_origin
  /\ Migrate!migrations[27] = Migrate!message_photo_attachments
  /\ Migrate!migrations[28] = Migrate!drop_permission_mode_checks
  /\ Migrate!migrations[29] = Migrate!goal_next_step
  /\ Migrate!migrations[30] = Migrate!message_narration_kind
  /\ Migrate!migrations[31] = Migrate!goal_action_items
  /\ Migrate!migrations[32] = Migrate!session_source_control_warning
  /\ Migrate!migrations[33] = Migrate!task_created_by
  /\ Migrate!migrations[34] = Migrate!workspace_file_snapshots
  /\ Migrate!migrations[35] = Migrate!schedule_runs_webhook_trigger
  /\ Migrate!migrations[36] = Migrate!session_archived_at
  /\ Migrate!migrations[37] = Migrate!notifications
  /\ Migrate!migrations[38] = Migrate!notification_devices
  /\ Migrate!migrations[39] = Migrate!notification_device_status
  /\ Migrate!migrations[40] = Migrate!session_project_overrides
  /\ Migrate!migrations[41] = Migrate!goal_feedback_pinned
  /\ Migrate!migrations[42] = Migrate!durable_goal_memory
BY DEF Migrate!migrations, Migrate!Versions

(* Every migration after the first fits where it stands. *)
LEMMA MigrationsFit == ASSUME NEW v \in 2..42 PROVE Fits(v, Migrate!migrations[v])
<1> USE DEF Fits, Born, AddedTo, AddedBefore, Values, Since, AdmittedAt, Migrate!Tables,
      Migrate!Plain, Migrate!NoChange, Migrate!New, Migrate!Adds
<1>2. Fits(2, Migrate!core_domain)
  BY DEF Migrate!core_domain, Migrate!Origins
<1>3. Fits(3, Migrate!session_metadata_and_settings)
  BY DEF Migrate!session_metadata_and_settings
<1>4. Fits(4, Migrate!schedule_runs)
  BY DEF Migrate!schedule_runs
<1>5. Fits(5, Migrate!tasks)
  BY DEF Migrate!tasks
<1>6. Fits(6, Migrate!onboarding_origin)
  BY DEF Migrate!onboarding_origin, Migrate!Origins
<1>7. Fits(7, Migrate!session_project_id)
  BY DEF Migrate!session_project_id
<1>8. Fits(8, Migrate!push_subscriptions)
  BY DEF Migrate!push_subscriptions
<1>9. Fits(9, Migrate!agent_mcp_servers)
  BY DEF Migrate!agent_mcp_servers
<1>10. Fits(10, Migrate!agent_memory_dreaming)
  BY DEF Migrate!agent_memory_dreaming
<1>11. Fits(11, Migrate!plan_mode)
  BY DEF Migrate!plan_mode
<1>12. Fits(12, Migrate!message_kind)
  BY DEF Migrate!message_kind
<1>13. Fits(13, Migrate!session_context_window)
  BY DEF Migrate!session_context_window
<1>14. Fits(14, Migrate!goals)
  BY DEF Migrate!goals, Migrate!Origins, Migrate!Events, Migrate!SessionColumns
<1>15. Fits(15, Migrate!agent_avatar)
  BY DEF Migrate!agent_avatar
<1>16. Fits(16, Migrate!session_token_usage)
  BY DEF Migrate!session_token_usage
<1>17. Fits(17, Migrate!run_targets)
  BY DEF Migrate!run_targets
<1>18. Fits(18, Migrate!goal_rate_limit_recovery)
  BY DEF Migrate!goal_rate_limit_recovery, Migrate!EventRebuild, Migrate!Events
<1>19. Fits(19, Migrate!message_reasoning_kind)
  BY DEF Migrate!message_reasoning_kind
<1>20. Fits(20, Migrate!goal_user_feedback_events)
  BY DEF Migrate!goal_user_feedback_events, Migrate!EventRebuild, Migrate!Events
<1>21. Fits(21, Migrate!goal_yolo_tool_audit)
  BY DEF Migrate!goal_yolo_tool_audit, Migrate!EventRebuild, Migrate!Events
<1>22. Fits(22, Migrate!agent_questions)
  BY DEF Migrate!agent_questions, Migrate!EventRebuild, Migrate!Events, Migrate!Asked
<1>23. Fits(23, Migrate!editable_unread_goal_feedback)
  BY DEF Migrate!editable_unread_goal_feedback
<1>24. Fits(24, Migrate!goal_runs_and_lead_session)
  BY DEF Migrate!goal_runs_and_lead_session, Migrate!Events, Migrate!Asked
<1>25. Fits(25, Migrate!drop_provider_checks)
  BY DEF Migrate!drop_provider_checks, Migrate!AgentSessions, Migrate!Origins, Migrate!SessionColumns
<1>26. Fits(26, Migrate!interview_origin)
  BY DEF Migrate!interview_origin, Migrate!Origins, Migrate!SessionColumns
<1>27. Fits(27, Migrate!message_photo_attachments)
  BY DEF Migrate!message_photo_attachments
<1>28. Fits(28, Migrate!drop_permission_mode_checks)
  BY DEF Migrate!drop_permission_mode_checks, Migrate!AgentSessions, Migrate!Origins, Migrate!SessionColumns
<1>29. Fits(29, Migrate!goal_next_step)
  BY DEF Migrate!goal_next_step
<1>30. Fits(30, Migrate!message_narration_kind)
  BY DEF Migrate!message_narration_kind
<1>31. Fits(31, Migrate!goal_action_items)
  <2> DEFINE m == Migrate!goal_action_items
             Grown == {"created", "rate_limited", "user_feedback", "tool_use",
                       "question_asked", "action_requested"}
  <2>1. /\ m.new = {"goal_action_items"} /\ m.adds = {} /\ m.fills = {}
        /\ m.keeps = [goal_events |-> {24}] /\ m.guards = {"goal_events"}
        /\ m.admits = [goal_events |-> Grown]
    BY DEF Migrate!goal_action_items, Migrate!EventRebuild, Migrate!Events, Migrate!Asked
  <2> HIDE DEF m
  <2>2. /\ DOMAIN m.keeps = {"goal_events"} /\ m.keeps["goal_events"] = {24}
        /\ DOMAIN m.admits = {"goal_events"} /\ m.admits["goal_events"] = Grown
    BY <2>1
  <2>3. AdmittedAt("goal_events", 31) = Grown
    OBVIOUS
  <2>4. ASSUME NEW t \in Migrate!Tables \ DOMAIN m.admits
        PROVE  /\ Born(t) = 31 => Values(t) = Migrate!Plain
               /\ Born(t) < 31 => \A x \in Values(t) : Since(x) # 31
    <3>1. t \in Migrate!Tables /\ t # "goal_events"
      BY <2>2
    <3>2. \A x : Since(x) = 31 => x = "action_requested"
      BY DEF Since
    <3>3. "action_requested" \notin Values(t)
      BY <3>1 DEF Values
    <3>4. Born(t) = 31 => t = "goal_action_items"
      BY <3>1 DEF Migrate!Tables, Born
    <3>5. Values("goal_action_items") = Migrate!Plain
      BY DEF Values, Migrate!Plain
    <3> HIDE DEF Since, Values, Born, Migrate!Plain
    <3> QED BY <3>2, <3>3, <3>4, <3>5
  <2>5. m.new = {t \in Migrate!Tables : Born(t) = 31}
    BY <2>1
  <2>6. 31 \notin {24} /\ "goal_events" \in Migrate!Tables /\ Born("goal_events") < 31
        /\ AddedBefore("goal_events", 31) = {24}
    OBVIOUS
  <2>7. /\ {"sessions", "goal_events"} \cap (m.new \cup DOMAIN m.keeps) \subseteq m.guards
        /\ m.fills = CASE 31 = 24 -> {<<"goal_runs", "goal_events">>}
                       [] 31 = 42 -> {<<"goal_memories", "goals">>}
                       [] OTHER -> {}
    BY <2>1, <2>2
  <2> HIDE DEF Since, Values, Born, AdmittedAt, AddedBefore, AddedTo, Migrate!Tables, Grown
  <2>8. /\ \A t \in m.adds : 31 \in AddedTo(t)
        /\ \A t \in DOMAIN m.keeps :
             t \in Migrate!Tables /\ Born(t) < 31 /\ m.keeps[t] = AddedBefore(t, 31)
        /\ \A t \in DOMAIN m.admits : m.admits[t] = AdmittedAt(t, 31)
    BY <2>1, <2>2, <2>3, <2>6
  <2> QED BY <2>4, <2>5, <2>7, <2>8 DEF m
<1>32. Fits(32, Migrate!session_source_control_warning)
  BY DEF Migrate!session_source_control_warning
<1>33. Fits(33, Migrate!task_created_by)
  BY DEF Migrate!task_created_by
<1>34. Fits(34, Migrate!workspace_file_snapshots)
  BY DEF Migrate!workspace_file_snapshots
<1>35. Fits(35, Migrate!schedule_runs_webhook_trigger)
  BY DEF Migrate!schedule_runs_webhook_trigger
<1>36. Fits(36, Migrate!session_archived_at)
  BY DEF Migrate!session_archived_at
<1>37. Fits(37, Migrate!notifications)
  BY DEF Migrate!notifications
<1>38. Fits(38, Migrate!notification_devices)
  BY DEF Migrate!notification_devices
<1>39. Fits(39, Migrate!notification_device_status)
  BY DEF Migrate!notification_device_status
<1>40. Fits(40, Migrate!session_project_overrides)
  BY DEF Migrate!session_project_overrides
<1>41. Fits(41, Migrate!goal_feedback_pinned)
  BY DEF Migrate!goal_feedback_pinned
<1>42. Fits(42, Migrate!durable_goal_memory)
  BY DEF Migrate!durable_goal_memory
<1> QED
  <2> HIDE DEF Fits, Born, AddedTo, AddedBefore, Values, Since, AdmittedAt, Migrate!Tables
  <2>1. v = 2 \/ v = 3 \/ v = 4 \/ v = 5 \/ v = 6 \/ v = 7 \/ v = 8 \/ v = 9 \/ v = 10 \/ v = 11 \/ v = 12 \/ v = 13 \/ v = 14 \/ v = 15 \/ v = 16 \/ v = 17 \/ v = 18 \/ v = 19 \/ v = 20 \/ v = 21 \/ v = 22 \/ v = 23 \/ v = 24 \/ v = 25 \/ v = 26 \/ v = 27 \/ v = 28 \/ v = 29 \/ v = 30 \/ v = 31 \/ v = 32 \/ v = 33 \/ v = 34 \/ v = 35 \/ v = 36 \/ v = 37 \/ v = 38 \/ v = 39 \/ v = 40 \/ v = 41 \/ v = 42
    BY SMT
  <2> QED BY <2>1, MigrationNumbers, <1>2, <1>3, <1>4, <1>5, <1>6, <1>7, <1>8, <1>9, <1>10, <1>11, <1>12, <1>13, <1>14, <1>15, <1>16, <1>17, <1>18, <1>19, <1>20, <1>21, <1>22, <1>23, <1>24, <1>25, <1>26, <1>27, <1>28, <1>29, <1>30, <1>31, <1>32, <1>33, <1>34, <1>35, <1>36, <1>37, <1>38, <1>39, <1>40, <1>41, <1>42

(* The references lead from a table to an older one. *)
LEMMA ParentsOf ==
  ASSUME NEW t \in Migrate!Tables, NEW p \in Migrate!Parents(t)
  PROVE  /\ p \in {"agents", "sessions", "messages", "goals", "goal_events", "notifications"}
         /\ Born(p) <= Born(t)
         /\ p = "messages" => t = "attachments"
         /\ p = "goal_events" => t = "goal_feedback_receipts"
<1>1. CASE t \in {"sessions", "dreams"}
  BY <1>1 DEF Migrate!Parents, Born
<1>2. CASE t \in {"messages", "schedule_runs"}
  BY <1>2 DEF Migrate!Parents, Born
<1>3. CASE t \in {"attachments", "goal_feedback_receipts", "notification_deliveries"}
  BY <1>3 DEF Migrate!Parents, Born
<1>4. CASE t \in {"goal_events", "access_requests", "goal_rate_limits", "goal_runs",
                  "goal_action_items", "goal_memories", "goal_memory_revisions"}
  BY <1>4 DEF Migrate!Parents, Born
<1>5. CASE t \in {"agents", "tasks", "push_subscriptions", "goals", "agent_questions",
     "workspace_file_snapshots", "notifications", "notification_preferences", "notification_devices"}
  BY <1>5 DEF Migrate!Parents, Born
<1> QED
  BY <1>1, <1>2, <1>3, <1>4, <1>5 DEF Migrate!Tables
LEMMA LineageIs ==
  ASSUME NEW t \in Migrate!Tables, NEW u \in Migrate!Lineage(t)
  PROVE  \/ u = t \/ u \in Migrate!Parents(t)
         \/ \E p \in Migrate!Parents(t) : u \in Migrate!Parents(p)
         \/ u = "agents" /\ t = "attachments"
<1> DEFINE Grand == UNION {Migrate!Parents(p) : p \in Migrate!Parents(t)}
           Root == IF "messages" \in Migrate!Parents(t) THEN {"agents"} ELSE {}
<1>1. Migrate!Lineage(t) = {t} \cup Migrate!Parents(t) \cup Grand \cup Root
  BY DEF Migrate!Lineage
<1>2. u \in Grand => \E p \in Migrate!Parents(t) : u \in Migrate!Parents(p)
  OBVIOUS
<1>4. u \in Root => u = "agents" /\ "messages" \in Migrate!Parents(t)
  OBVIOUS
<1> HIDE DEF Grand, Root
<1>3. "messages" \in Migrate!Parents(t) => t = "attachments"
  BY ParentsOf
<1> QED BY <1>1, <1>2, <1>3, <1>4
LEMMA LineageClosed ==
  ASSUME NEW t \in Migrate!Tables
  PROVE  /\ t \in Migrate!Lineage(t) /\ Migrate!Lineage(t) \subseteq Migrate!Tables
         /\ \A u \in Migrate!Lineage(t) :
              Migrate!Parents(u) \subseteq Migrate!Lineage(t) /\ Born(u) <= Born(t)
<1> DEFINE Old == {"agents", "sessions", "messages", "goals", "goal_events", "notifications"}
<1>1. Old \subseteq Migrate!Tables
  BY DEF Migrate!Tables
<1>2. \A s \in Migrate!Tables : Born(s) \in Nat
  BY DEF Born
<1>3. /\ Migrate!Parents("agents") = {} /\ Migrate!Parents("goals") = {}
      /\ Migrate!Parents("notifications") = {} /\ Migrate!Parents("sessions") = {"agents"}
      /\ Migrate!Parents("messages") = {"sessions"} /\ Migrate!Parents("goal_events") = {"goals"}
      /\ Migrate!Parents("attachments") = {"sessions", "messages"}
      /\ Migrate!Parents("goal_feedback_receipts") = {"goals", "goal_events"}
  BY DEF Migrate!Parents
<1>4. Born("agents") = 2 /\ Born("sessions") = 2 /\ Born("messages") = 2 /\ Born("attachments") = 27
  BY DEF Born
<1> HIDE DEF Old
<1>5. \A s \in Migrate!Tables : \A p \in Migrate!Parents(s) :
        /\ p \in Old /\ p \in Migrate!Tables /\ Born(p) <= Born(s)
        /\ p = "messages" => s = "attachments"
        /\ p = "goal_events" => s = "goal_feedback_receipts"
  BY <1>1, ParentsOf DEF Old
<1>6. ASSUME NEW u \in Migrate!Lineage(t)
      PROVE  \/ u = t \/ u \in Migrate!Parents(t)
             \/ \E p \in Migrate!Parents(t) : u \in Migrate!Parents(p)
             \/ u = "agents" /\ t = "attachments"
  BY LineageIs
<1>7. t \in Migrate!Lineage(t) /\ Migrate!Lineage(t) \subseteq Migrate!Tables
  BY <1>1, <1>5, <1>6 DEF Migrate!Lineage, Old
<1>8. ASSUME NEW u \in Migrate!Lineage(t) PROVE Born(u) <= Born(t)
  BY <1>2, <1>4, <1>5, <1>6, <1>7
<1>9. ASSUME NEW u \in Migrate!Lineage(t) PROVE Migrate!Parents(u) \subseteq Migrate!Lineage(t)
  <2>1. CASE u = t
    BY <2>1 DEF Migrate!Lineage
  <2>2. CASE u \in Migrate!Parents(t)
    BY <2>2 DEF Migrate!Lineage
  <2>3. ASSUME NEW p \in Migrate!Parents(t), u \in Migrate!Parents(p)
        PROVE  Migrate!Parents(u) \subseteq Migrate!Lineage(t)
    <3>1. p \in Old
      BY <1>5
    <3>2. CASE p = "messages"
      BY <3>2, <1>3, <2>3, <1>5 DEF Migrate!Lineage
    <3>3. CASE p # "messages"
      BY <3>1, <3>3, <1>3, <2>3 DEF Old
    <3> QED BY <3>2, <3>3
  <2>4. CASE u = "agents"
    BY <2>4, <1>3
  <2> QED BY <1>6, <2>1, <2>2, <2>3, <2>4
<1> QED BY <1>7, <1>8, <1>9
(* A table whose rows others refer to admits what Enter chooses. *)
LEMMA ParentKinds ==
  ASSUME NEW t \in Migrate!Tables, NEW u \in Migrate!Lineage(t), u # t, NEW n \in Nat, Born(u) <= n
  PROVE  "-" \in AdmittedAt(u, n) \/ \E x \in AdmittedAt(u, n) : x \in {"web", "message", "created"}
<1>1. u \in {"agents", "sessions", "messages", "goals", "goal_events", "notifications"}
  <2>1. CASE u \in Migrate!Parents(t)
    BY <2>1, ParentsOf
  <2>2. ASSUME NEW p \in Migrate!Parents(t), u \in Migrate!Parents(p)
        PROVE  u \in {"agents", "sessions", "messages", "goals", "goal_events", "notifications"}
    <3>1. p \in Migrate!Tables
      BY ParentsOf DEF Migrate!Tables
    <3> QED BY <2>2, <3>1, ParentsOf
  <2> QED BY <2>1, <2>2, LineageIs
<1>2. /\ Values("agents") = {"-"} /\ Values("goals") = {"-"} /\ Values("notifications") = {"-"}
      /\ "web" \in Values("sessions") /\ "message" \in Values("messages")
      /\ "created" \in Values("goal_events")
      /\ Since("-") = 0 /\ Since("web") = 0 /\ Since("message") = 0 /\ Since("created") = 0
  BY DEF Values, Since
<1> QED BY <1>1, <1>2 DEF AdmittedAt

(* What is migrated so far, and what is stored in it. *)
SchemaAt(n) ==
  /\ applied = 1..n
  /\ DOMAIN cols = {t \in Migrate!Tables : Born(t) <= n}
  /\ DOMAIN admits = DOMAIN cols /\ DOMAIN stored = DOMAIN cols
  /\ \A t \in DOMAIN cols : cols[t] \subseteq AddedBefore(t, n + 1) /\ admits[t] = AdmittedAt(t, n)
  /\ {"sessions", "goal_events"} \cap DOMAIN cols \subseteq guarded
RowsFit ==
  \A t \in DOMAIN stored : \A i \in DOMAIN stored[t] :
    /\ DOMAIN stored[t][i] = {"kind", "cols"}
    /\ stored[t][i].kind \in admits[t] /\ stored[t][i].cols \subseteq cols[t]
    /\ \A p \in Migrate!Parents(t) : i \in DOMAIN stored[p]
Ids == {e.row : e \in entered}
RowsNumbered ==
  /\ \E k \in Nat : Ids = 1..k
  /\ \A t \in DOMAIN stored : DOMAIN stored[t] \subseteq Ids
RowsKept ==
  \A e \in entered : /\ e.table \in DOMAIN stored /\ e.row \in DOMAIN stored[e.table]
                     /\ stored[e.table][e.row].kind = e.value.kind
                     /\ e.value.cols \subseteq stored[e.table][e.row].cols
SchemaInv ==
  /\ release \in Nat /\ phase # "failed"
  /\ \E n \in 1..42 : SchemaAt(n)
  /\ RowsFit /\ RowsNumbered /\ RowsKept

LEMMA BornNumbers ==
  /\ \A t : Born(t) \in Nat /\ Born(t) >= 2
  /\ \A x : Since(x) \in Nat
  /\ \A t : AddedTo(t) \subseteq Nat
BY DEF Born, Since, AddedTo

LEMMA InitSchemaInv == Init => SchemaInv
<1> SUFFICES ASSUME Init PROVE SchemaInv
  OBVIOUS
<1>1. /\ applied = {1} /\ cols = <<>> /\ admits = <<>> /\ guarded = {} /\ stored = <<>>
      /\ release \in Schemas /\ phase = "down" /\ entered = {}
  BY DEF Init, Migrate!MigrationInit
<1>2. DOMAIN cols = {} /\ DOMAIN admits = {} /\ DOMAIN stored = {}
  BY <1>1
<1>3. SchemaAt(1)
  <2>1. \A t : ~(Born(t) <= 1)
    BY BornNumbers
  <2> QED BY <1>1, <1>2, <2>1 DEF SchemaAt
<1>4. RowsFit
  BY <1>2 DEF RowsFit
<1>5. RowsNumbered
  <2>1. Ids = 1..0
    BY <1>1 DEF Ids
  <2> QED BY <1>2, <2>1 DEF RowsNumbered
<1>6. RowsKept
  BY <1>1 DEF RowsKept
<1>7. release \in Nat
  BY <1>1, SchemasAssumption
<1> QED BY <1>1, <1>3, <1>4, <1>5, <1>6, <1>7 DEF SchemaInv

LEMMA SchemaInvMeans == SchemaInv => Migrate!UpgradeKeepsData
<1> SUFFICES ASSUME SchemaInv PROVE Migrate!UpgradeKeepsData
  OBVIOUS
<1>1. PICK n \in 1..42 : SchemaAt(n)
  BY DEF SchemaInv
<1>2. Migrate!Orphans = {}
  <2> SUFFICES ASSUME NEW r \in Migrate!Orphans PROVE FALSE
    OBVIOUS
  <2>1. /\ r[1] \in DOMAIN stored /\ r[2] \in DOMAIN stored[r[1]]
        /\ \E p \in Migrate!Parents(r[1]) : r[2] \notin DOMAIN stored[p]
    BY DEF Migrate!Orphans
  <2> QED BY <2>1 DEF SchemaInv, RowsFit
<1>3. {"sessions", "goal_events"} \cap DOMAIN cols \subseteq guarded
  BY <1>1 DEF SchemaAt
<1> QED BY <1>2, <1>3 DEF SchemaInv, RowsKept, Migrate!UpgradeKeepsData

LEMMA ApplyInv == SchemaInv /\ Migrate!Apply => SchemaInv'
<1> SUFFICES ASSUME SchemaInv, Migrate!Apply PROVE SchemaInv'
  OBVIOUS
<1> DEFINE T == Migrate!Tables
           least == CHOOSE w \in Migrate!Pending : \A u \in Migrate!Pending : w <= u
<1>1. PICK n \in 1..42 : SchemaAt(n)
  BY DEF SchemaInv
<1> DEFINE v == n + 1
           m == Migrate!migrations[v]
<1>2. least = v /\ v = n + 1 /\ v \in 2..42 /\ n = v - 1
  <2>1. Migrate!Pending = {w \in 1..42 : w <= release /\ w \notin 1..n}
    BY <1>1, MigrationNumbers DEF Migrate!Pending, SchemaAt
  <2>2. release \in Nat /\ Migrate!Pending # {}
    BY DEF SchemaInv, Migrate!Apply
  <2>3. n + 1 \in Migrate!Pending /\ \A u \in Migrate!Pending : n + 1 <= u
    BY <2>1, <2>2
  <2>4. least \in Migrate!Pending /\ \A u \in Migrate!Pending : least <= u
    BY <2>3
  <2> HIDE DEF least
  <2>5. least \in 1..42 /\ least <= n + 1 /\ n + 1 <= least
    BY <2>1, <2>3, <2>4
  <2> QED BY <2>1, <2>3, <2>5
<1>3. /\ phase = "migrating"
      /\ UNCHANGED <<release, entered>>
      /\ ~Migrate!Fails(m) =>
           /\ applied' = Migrate!Recorded(v)
           /\ cols' = [t \in DOMAIN cols \cup m.new |-> Migrate!Columns(m, t, v)]
           /\ admits' = [t \in DOMAIN cols' |-> Migrate!Admitted(m, t)]
           /\ guarded' = (guarded \ DOMAIN m.keeps) \cup m.guards
           /\ stored' = [t \in DOMAIN cols' |->
                IF t \in m.new THEN Migrate!Filled(m, t) ELSE Migrate!Copied(m, t)]
           /\ UNCHANGED phase
  <2> DEFINE m0 == Migrate!migrations[least]
  <2>1. /\ phase = "migrating"
        /\ UNCHANGED <<release, entered>>
        /\ ~Migrate!Fails(m0) =>
             /\ applied' = Migrate!Recorded(least)
             /\ cols' = [t \in DOMAIN cols \cup m0.new |-> Migrate!Columns(m0, t, least)]
             /\ admits' = [t \in DOMAIN cols' |-> Migrate!Admitted(m0, t)]
             /\ guarded' = (guarded \ DOMAIN m0.keeps) \cup m0.guards
             /\ stored' = [t \in DOMAIN cols' |->
                  IF t \in m0.new THEN Migrate!Filled(m0, t) ELSE Migrate!Copied(m0, t)]
             /\ UNCHANGED phase
    BY DEF Migrate!Apply
  <2>2. m0 = m
    BY <1>2
  <2>3. least = v
    BY <1>2
  <2> HIDE DEF m0, least, v, m
  <2> QED BY <2>1, <2>2, <2>3
<1> HIDE DEF v, least
<1>4. Fits(v, m)
  BY <1>2, MigrationsFit
<1> HIDE DEF m
<1>5. /\ m.new = {t \in T : Born(t) = v} /\ \A t \in m.adds : v \in AddedTo(t)
      /\ \A t \in DOMAIN m.keeps : t \in T /\ Born(t) < v /\ m.keeps[t] = AddedBefore(t, v)
      /\ \A t \in DOMAIN m.admits : m.admits[t] = AdmittedAt(t, v)
  BY <1>4 DEF Fits
<1>6. /\ \A t \in T \ DOMAIN m.admits :
           /\ Born(t) = v => Values(t) = Migrate!Plain
           /\ Born(t) < v => \A x \in Values(t) : Since(x) # v
      /\ {"sessions", "goal_events"} \cap (m.new \cup DOMAIN m.keeps) \subseteq m.guards
      /\ m.fills = CASE v = 24 -> {<<"goal_runs", "goal_events">>}
                     [] v = 42 -> {<<"goal_memories", "goals">>}
                     [] OTHER -> {}
  BY <1>4 DEF Fits
<1>7. /\ DOMAIN cols = {t \in T : Born(t) <= n} /\ DOMAIN admits = DOMAIN cols
      /\ DOMAIN stored = DOMAIN cols
      /\ \A t \in DOMAIN cols : cols[t] \subseteq AddedBefore(t, v) /\ admits[t] = AdmittedAt(t, n)
      /\ {"sessions", "goal_events"} \cap DOMAIN cols \subseteq guarded /\ applied = 1..n
  BY <1>1, <1>2 DEF SchemaAt
<1>8. /\ \A t \in DOMAIN cols : t \notin m.new
      /\ \A t \in DOMAIN m.keeps : t \in DOMAIN cols
      /\ m.new \subseteq T
  BY <1>2, <1>5, <1>7, BornNumbers
<1>9. \A t \in DOMAIN cols : AdmittedAt(t, n) \subseteq AdmittedAt(t, v)
  BY <1>2, BornNumbers DEF AdmittedAt
\* The CHECK after the migration.
<1>10. ASSUME NEW t \in DOMAIN cols \cup m.new
       PROVE  Migrate!Admitted(m, t) = AdmittedAt(t, v)
  <2>1. CASE t \in DOMAIN m.admits
    BY <2>1, <1>5 DEF Migrate!Admitted
  <2>2. CASE t \notin DOMAIN m.admits /\ t \in m.new
    <3>1. Values(t) = {"-"} /\ Since("-") = 0
      BY <2>2, <1>5, <1>6, <1>8 DEF Migrate!Plain, Since
    <3>2. AdmittedAt(t, v) = {"-"}
      BY <3>1, <1>2 DEF AdmittedAt
    <3> QED BY <2>2, <3>2 DEF Migrate!Admitted, Migrate!Plain
  <2>3. CASE t \notin DOMAIN m.admits /\ t \in DOMAIN cols
    <3>1. t \in T /\ Born(t) < v /\ t \notin m.new
      BY <2>3, <1>2, <1>7, <1>8, BornNumbers
    <3>2. \A x \in Values(t) : Since(x) # v /\ Since(x) \in Nat
      BY <3>1, <2>3, <1>6, BornNumbers
    <3>3. AdmittedAt(t, n) = AdmittedAt(t, v)
      BY <3>2, <1>2 DEF AdmittedAt
    <3> QED BY <2>3, <3>1, <3>3, <1>7 DEF Migrate!Admitted
  <2> QED BY <2>1, <2>2, <2>3
<1>11. RowsFit /\ RowsNumbered /\ RowsKept /\ release \in Nat /\ phase # "failed"
  BY DEF SchemaInv
\* No statement of the migration fails.
<1>12. ~Migrate!Fails(m)
  <2>1. m.new \cap DOMAIN cols = {}
    BY <1>8
  <2>2. \A t \in DOMAIN m.keeps : \A i \in DOMAIN stored[t] :
          stored[t][i].kind \in Migrate!Admitted(m, t)
    BY <1>7, <1>8, <1>9, <1>10, <1>11 DEF RowsFit
  <2> QED BY <2>1, <2>2 DEF Migrate!Fails, Migrate!Enforced
<1>13. /\ DOMAIN cols' = DOMAIN cols \cup m.new /\ DOMAIN admits' = DOMAIN cols'
       /\ DOMAIN stored' = DOMAIN cols'
       /\ \A t \in DOMAIN cols' :
            /\ cols'[t] = Migrate!Columns(m, t, v) /\ admits'[t] = AdmittedAt(t, v)
            /\ stored'[t] = IF t \in m.new THEN Migrate!Filled(m, t) ELSE Migrate!Copied(m, t)
  BY <1>3, <1>10, <1>12
<1>14. \A t \in DOMAIN cols' : cols'[t] \subseteq AddedBefore(t, v + 1)
  <2> SUFFICES ASSUME NEW t \in DOMAIN cols' PROVE cols'[t] \subseteq AddedBefore(t, v + 1)
    OBVIOUS
  <2>1. AddedBefore(t, v) \subseteq AddedBefore(t, v + 1)
    BY <1>2, BornNumbers DEF AddedBefore
  <2>2. t \in m.adds => v \in AddedBefore(t, v + 1)
    BY <1>2, <1>5 DEF AddedBefore
  <2>3. t \in DOMAIN m.keeps => m.keeps[t] = AddedBefore(t, v)
    BY <1>5
  <2>4. t \in DOMAIN cols => cols[t] \subseteq AddedBefore(t, v)
    BY <1>7
  <2> QED BY <1>13, <2>1, <2>2, <2>3, <2>4 DEF Migrate!Columns
<1>15. \E w \in 1..42 : SchemaAt(w)'
  <2>0. PICK w \in 2..42 : w = v
    BY <1>2
  <2>1. applied' = 1..v
    <3>1. applied' = applied \cup {v}
      BY <1>3, <1>12 DEF Migrate!Recorded
    <3>2. 1..v = 1..n \cup {v}
      BY <1>2
    <3> QED BY <3>1, <3>2, <1>7
  <2>2. DOMAIN cols' = {t \in T : Born(t) <= v}
    BY <1>2, <1>5, <1>7, <1>13, BornNumbers
  <2>3. {"sessions", "goal_events"} \cap DOMAIN cols' \subseteq guarded'
    BY <1>3, <1>6, <1>7, <1>12, <1>13
  <2>4. SchemaAt(w)'
    BY <2>0, <2>1, <2>2, <2>3, <1>13, <1>14 DEF SchemaAt
  <2> QED BY <2>4
\* What the rebuild of a table copies: all of it.
<1>16. ASSUME NEW t \in DOMAIN cols
       PROVE  /\ t \in DOMAIN stored' /\ DOMAIN stored'[t] = DOMAIN stored[t]
              /\ \A i \in DOMAIN stored[t] :
                   /\ DOMAIN stored'[t][i] = {"kind", "cols"}
                   /\ stored'[t][i].kind = stored[t][i].kind
                   /\ stored'[t][i].cols = stored[t][i].cols
  <2>1. stored'[t] = Migrate!Copied(m, t) /\ t \in DOMAIN stored'
    BY <1>8, <1>13
  <2>2. \A u : Migrate!Taken(m, u) = {}
    BY DEF Migrate!Taken, Migrate!Enforced
  <2>3. stored'[t] = [i \in DOMAIN stored[t] |-> [stored[t][i] EXCEPT !.cols =
          IF t \in DOMAIN m.keeps THEN @ \cap m.keeps[t] ELSE @]]
    BY <2>1, <2>2 DEF Migrate!Copied
  <2>4. ASSUME NEW i \in DOMAIN stored[t]
        PROVE  DOMAIN stored[t][i] = {"kind", "cols"} /\ stored[t][i].cols \subseteq AddedBefore(t, v)
    BY <1>7, <1>11 DEF RowsFit
  <2>5. t \in DOMAIN m.keeps => m.keeps[t] = AddedBefore(t, v)
    BY <1>5
  <2>6. ASSUME NEW i \in DOMAIN stored[t]
        PROVE  /\ DOMAIN stored'[t][i] = {"kind", "cols"}
               /\ stored'[t][i].kind = stored[t][i].kind
               /\ stored'[t][i].cols = stored[t][i].cols
    <3> DEFINE kept == IF t \in DOMAIN m.keeps THEN stored[t][i].cols \cap m.keeps[t]
                       ELSE stored[t][i].cols
    <3>1. kept = stored[t][i].cols
      BY <2>4, <2>5
    <3>2. stored'[t][i] = [stored[t][i] EXCEPT !.cols = kept]
      BY <2>3
    <3> HIDE DEF kept
    <3> QED BY <3>1, <3>2, <2>4
  <2> QED BY <2>1, <2>3, <2>6
\* What the migration itself enters.
<1>17. ASSUME NEW t \in m.new, NEW i \in DOMAIN stored'[t]
       PROVE  /\ stored'[t][i] = [kind |-> "-", cols |-> {}]
              /\ admits'[t] = {"-"} /\ Migrate!Parents(t) = {"goals"}
              /\ "goals" \in DOMAIN cols /\ i \in DOMAIN stored["goals"]
  <2>1. stored'[t] = Migrate!Filled(m, t) /\ t \in DOMAIN cols'
    BY <1>13
  <2>2. t \in {f[1] : f \in m.fills}
    <3>1. CASE t \notin {f[1] : f \in m.fills}
      <4>1. stored'[t] = <<>>
        BY <2>1, <3>1 DEF Migrate!Filled
      <4> QED BY <4>1
    <3> QED BY <3>1
  <2> DEFINE from == CHOOSE s \in T : <<t, s>> \in m.fills
  <2>3. stored'[t] = [j \in DOMAIN stored[from] |-> [kind |-> "-", cols |-> {}]]
    BY <2>1, <2>2 DEF Migrate!Filled
  <2>4. "goal_events" \in T /\ "goals" \in T
    BY DEF Migrate!Tables
  <2>5. \/ v = 24 /\ t = "goal_runs" /\ from = "goal_events"
        \/ v = 42 /\ t = "goal_memories" /\ from = "goals"
    <3>1. CASE v = 24
      <4>1. m.fills = {<<"goal_runs", "goal_events">>}
        BY <3>1, <1>6
      <4>2. t = "goal_runs"
        BY <4>1, <2>2
      <4>3. \A s : <<t, s>> \in m.fills <=> s = "goal_events"
        BY <4>1, <4>2
      <4> QED BY <3>1, <4>2, <4>3, <2>4
    <3>2. CASE v = 42
      <4>1. m.fills = {<<"goal_memories", "goals">>}
        BY <3>2, <1>6
      <4>2. t = "goal_memories"
        BY <4>1, <2>2
      <4>3. \A s : <<t, s>> \in m.fills <=> s = "goals"
        BY <4>1, <4>2
      <4> QED BY <3>2, <4>2, <4>3, <2>4
    <3>3. CASE v # 24 /\ v # 42
      <4>1. m.fills = {}
        BY <3>3, <1>6
      <4> QED BY <4>1, <2>2
    <3> QED BY <3>1, <3>2, <3>3
  <2> HIDE DEF from
  <2>6. /\ Born("goals") = 14 /\ Born("goal_events") = 14
        /\ Values("goal_runs") = {"-"} /\ Values("goal_memories") = {"-"} /\ Since("-") = 0
        /\ Migrate!Parents("goal_runs") = {"goals"} /\ Migrate!Parents("goal_memories") = {"goals"}
        /\ Migrate!Parents("goal_events") = {"goals"}
    BY DEF Born, Values, Since, Migrate!Parents
  <2>7. "goals" \in DOMAIN cols /\ "goal_events" \in DOMAIN cols
    <3>1. 14 <= n
      BY <2>5, <1>2
    <3> QED BY <3>1, <2>4, <2>6, <1>7
  <2>8. i \in DOMAIN stored[from] /\ stored'[t][i] = [kind |-> "-", cols |-> {}]
    BY <2>3
  <2>9. i \in DOMAIN stored["goals"]
    BY <2>5, <2>6, <2>7, <2>8, <1>7, <1>11 DEF RowsFit
  <2>10. AdmittedAt(t, v) = {"-"}
    BY <2>5, <2>6, <1>2 DEF AdmittedAt
  <2>11. admits'[t] = {"-"}
    BY <2>1, <2>10, <1>13
  <2>12. Migrate!Parents(t) = {"goals"}
    BY <2>5, <2>6
  <2> QED BY <2>7, <2>8, <2>9, <2>11, <2>12
<1>18. RowsFit'
  <2> SUFFICES ASSUME NEW t \in DOMAIN stored', NEW i \in DOMAIN stored'[t]
               PROVE  /\ DOMAIN stored'[t][i] = {"kind", "cols"}
                      /\ stored'[t][i].kind \in admits'[t] /\ stored'[t][i].cols \subseteq cols'[t]
                      /\ \A p \in Migrate!Parents(t) : i \in DOMAIN stored'[p]
    BY DEF RowsFit
  <2>1. CASE t \in m.new
    <3>1. stored'[t][i] = [kind |-> "-", cols |-> {}] /\ admits'[t] = {"-"}
      BY <2>1, <1>17
    <3>2. \A p \in Migrate!Parents(t) : i \in DOMAIN stored'[p]
      BY <2>1, <1>16, <1>17
    <3> QED BY <3>1, <3>2
  <2>2. CASE t \in DOMAIN cols
    <3>1. t \in DOMAIN stored /\ i \in DOMAIN stored[t] /\ t \in T
      BY <2>2, <1>7, <1>16
    <3>2. /\ stored[t][i].kind \in admits[t] /\ stored[t][i].cols \subseteq cols[t]
          /\ \A p \in Migrate!Parents(t) : i \in DOMAIN stored[p]
      BY <3>1, <1>11 DEF RowsFit
    <3>3. /\ DOMAIN stored'[t][i] = {"kind", "cols"}
          /\ stored'[t][i].kind = stored[t][i].kind
          /\ stored'[t][i].cols = stored[t][i].cols
      BY <2>2, <3>1, <1>16
    <3>4. stored'[t][i].kind \in admits'[t]
      BY <3>2, <3>3, <2>2, <1>7, <1>9, <1>13
    <3>5. cols[t] \subseteq cols'[t]
      <4>1. t \in DOMAIN m.keeps => cols[t] \subseteq m.keeps[t]
        BY <2>2, <1>5, <1>7
      <4>2. cols'[t] = Migrate!Columns(m, t, v) /\ t \notin m.new
        BY <2>2, <1>8, <1>13
      <4> QED BY <4>1, <4>2 DEF Migrate!Columns
    <3>6. ASSUME NEW p \in Migrate!Parents(t) PROVE i \in DOMAIN stored'[p]
      <4>1. p \in T /\ Born(p) <= Born(t)
        BY <3>1, ParentsOf DEF Migrate!Tables
      <4>2. p \in DOMAIN cols
        BY <4>1, <2>2, <1>7, BornNumbers
      <4> QED BY <4>2, <3>2, <1>16
    <3> QED BY <3>2, <3>3, <3>4, <3>5, <3>6
  <2> QED BY <2>1, <2>2, <1>13
<1>19. RowsNumbered'
  <2>1. Ids' = Ids
    BY <1>3 DEF Ids
  <2>2. ASSUME NEW t \in DOMAIN stored' PROVE DOMAIN stored'[t] \subseteq Ids
    <3>1. CASE t \in m.new
      <4>1. ASSUME NEW i \in DOMAIN stored'[t] PROVE i \in Ids
        BY <3>1, <1>17, <1>7, <1>11 DEF RowsNumbered
      <4> QED BY <4>1
    <3>2. CASE t \in DOMAIN cols
      BY <3>2, <1>16, <1>7, <1>11 DEF RowsNumbered
    <3> QED BY <3>1, <3>2, <1>13
  <2> QED BY <2>1, <2>2, <1>11 DEF RowsNumbered
<1>20. RowsKept'
  <2> SUFFICES ASSUME NEW e \in entered
               PROVE  /\ e.table \in DOMAIN stored' /\ e.row \in DOMAIN stored'[e.table]
                      /\ stored'[e.table][e.row].kind = e.value.kind
                      /\ e.value.cols \subseteq stored'[e.table][e.row].cols
    BY <1>3 DEF RowsKept
  <2>1. /\ e.table \in DOMAIN stored /\ e.row \in DOMAIN stored[e.table]
        /\ stored[e.table][e.row].kind = e.value.kind
        /\ e.value.cols \subseteq stored[e.table][e.row].cols
    BY <1>11 DEF RowsKept
  <2> QED BY <2>1, <1>7, <1>16
<1>21. release' \in Nat /\ phase' # "failed"
  BY <1>3, <1>11, <1>12
<1> QED BY <1>15, <1>18, <1>19, <1>20, <1>21 DEF SchemaInv

LEMMA EnterInv ==
  ASSUME SchemaInv, NEW t \in Migrate!Tables, t \in DOMAIN cols, NEW k \in admits[t],
         Migrate!Enter(t, k)
  PROVE  SchemaInv'
<1> DEFINE L == Migrate!Lineage(t)
           c == Migrate!Cardinality({e.row : e \in entered}) + 1
           fresh == [u \in L |->
             [kind |-> IF u = t THEN k ELSE IF "-" \in admits[u] THEN "-"
                       ELSE CHOOSE x \in admits[u] : x \in {"web", "message", "created"},
              cols |-> cols[u]]]
<1>1. PICK n \in 1..42 : SchemaAt(n)
  BY DEF SchemaInv
<1>2. /\ stored' = [u \in DOMAIN stored |-> IF u \in L
           THEN [i \in DOMAIN stored[u] \cup {c} |-> IF i = c THEN fresh[u] ELSE stored[u][i]]
           ELSE stored[u]]
      /\ entered' = entered \cup {[table |-> u, row |-> c, value |-> fresh[u]] : u \in L}
      /\ UNCHANGED <<applied, cols, admits, guarded, release, phase>>
  BY DEF Migrate!Enter
<1>3. RowsFit /\ RowsNumbered /\ RowsKept /\ release \in Nat /\ phase # "failed"
  BY DEF SchemaInv
<1>4. PICK last_ \in Nat : Ids = 1..last_
  BY <1>3 DEF RowsNumbered
<1>5. c = last_ + 1
  <2>1. \A S : Migrate!Cardinality(S) = Cardinality(S)
    BY DEF Migrate!Cardinality, Cardinality
  <2>2. Cardinality(1..last_) = last_
    BY <1>4, FS_Interval
  <2>3. {e.row : e \in entered} = 1..last_
    BY <1>4 DEF Ids
  <2>4. c = Cardinality(1..last_) + 1
    BY <2>1, <2>3
  <2> HIDE DEF c
  <2> QED BY <2>2, <2>4
<1>6. ASSUME NEW u \in L
      PROVE  u \in DOMAIN stored /\ u \in Migrate!Tables /\ Migrate!Parents(u) \subseteq L
  <2>1. u \in Migrate!Tables /\ Migrate!Parents(u) \subseteq L /\ Born(u) <= Born(t)
    BY LineageClosed
  <2>2. Born(t) <= n
    BY <1>1 DEF SchemaAt
  <2>3. Born(u) <= n
    BY <2>1, <2>2, BornNumbers
  <2> QED BY <2>1, <2>3, <1>1 DEF SchemaAt
<1>7. ASSUME NEW u \in L
      PROVE  /\ DOMAIN fresh[u] = {"kind", "cols"} /\ fresh[u].kind \in admits[u] /\ fresh[u].cols = cols[u]
  <2>1. fresh[u].cols = cols[u] /\ DOMAIN fresh[u] = {"kind", "cols"}
    OBVIOUS
  <2>2. CASE u = t
    BY <2>1, <2>2
  <2>3. CASE u # t /\ "-" \in admits[u]
    BY <2>1, <2>3
  <2>4. CASE u # t /\ "-" \notin admits[u]
    <3>1. admits[u] = AdmittedAt(u, n) /\ Born(u) <= n
      BY <1>1, <1>6 DEF SchemaAt
    <3>2. \E x \in admits[u] : x \in {"web", "message", "created"}
      BY <2>4, <3>1, ParentKinds
    <3>3. (CHOOSE x \in admits[u] : x \in {"web", "message", "created"}) \in admits[u]
      BY <3>2
    <3>4. fresh[u].kind = CHOOSE x \in admits[u] : x \in {"web", "message", "created"}
      BY <2>4
    <3> QED BY <2>1, <3>3, <3>4
  <2> QED BY <2>2, <2>3, <2>4
<1>8. t \in L
  BY LineageClosed
<1> HIDE DEF fresh, c, L
<1>9. c \notin Ids
  BY <1>4, <1>5
<1>10. /\ DOMAIN stored' = DOMAIN stored
       /\ \A u \in DOMAIN stored :
            /\ DOMAIN stored'[u] = IF u \in L THEN DOMAIN stored[u] \cup {c} ELSE DOMAIN stored[u]
            /\ \A i \in DOMAIN stored[u] : stored'[u][i] = stored[u][i]
            /\ u \in L => stored'[u][c] = fresh[u]
  <2>1. \A u \in DOMAIN stored : c \notin DOMAIN stored[u]
    BY <1>3, <1>9 DEF RowsNumbered
  <2> QED BY <1>2, <2>1
<1>11. SchemaAt(n)'
  BY <1>1, <1>2, <1>10 DEF SchemaAt
<1>12. RowsFit'
  <2> SUFFICES ASSUME NEW u \in DOMAIN stored', NEW i \in DOMAIN stored'[u]
               PROVE  /\ DOMAIN stored'[u][i] = {"kind", "cols"}
                      /\ stored'[u][i].kind \in admits'[u] /\ stored'[u][i].cols \subseteq cols'[u]
                      /\ \A p \in Migrate!Parents(u) : i \in DOMAIN stored'[p]
    BY DEF RowsFit
  <2>1. u \in DOMAIN stored /\ admits' = admits /\ cols' = cols
    BY <1>2, <1>10
  <2>2. CASE i \in DOMAIN stored[u]
    <3>1. /\ DOMAIN stored[u][i] = {"kind", "cols"}
          /\ stored[u][i].kind \in admits[u] /\ stored[u][i].cols \subseteq cols[u]
          /\ \A p \in Migrate!Parents(u) : i \in DOMAIN stored[p]
      BY <2>1, <2>2, <1>3 DEF RowsFit
    <3>2. ASSUME NEW p \in Migrate!Parents(u) PROVE p \in DOMAIN stored
      <4>1. u \in Migrate!Tables /\ Born(u) <= n /\ DOMAIN stored = {s \in Migrate!Tables : Born(s) <= n}
        BY <2>1, <1>1 DEF SchemaAt
      <4>2. p \in Migrate!Tables /\ Born(p) <= Born(u)
        BY <4>1, ParentsOf DEF Migrate!Tables
      <4> QED BY <4>1, <4>2, BornNumbers
    <3>3. stored'[u][i] = stored[u][i]
      BY <2>1, <2>2, <1>10
    <3>4. \A p \in Migrate!Parents(u) : i \in DOMAIN stored'[p]
      BY <3>1, <3>2, <1>10
    <3> QED BY <2>1, <3>1, <3>3, <3>4
  <2>3. CASE u \in L /\ i = c
    <3>1. stored'[u][i] = fresh[u]
      BY <2>1, <2>3, <1>10
    <3>2. ASSUME NEW p \in Migrate!Parents(u) PROVE i \in DOMAIN stored'[p]
      <4>1. p \in L /\ p \in DOMAIN stored
        BY <2>3, <1>6
      <4> QED BY <4>1, <2>3, <1>10
    <3> QED BY <2>1, <2>3, <3>1, <3>2, <1>7
  <2> QED BY <2>1, <2>2, <2>3, <1>10
<1>13. Ids' = Ids \cup {c}
  <2> DEFINE add == {[table |-> u, row |-> c, value |-> fresh[u]] : u \in L}
  <2>1. entered' = entered \cup add
    BY <1>2
  <2>2. \A e \in add : e.row = c
    OBVIOUS
  <2>3. \E e \in add : e.row = c
    <3>1. [table |-> t, row |-> c, value |-> fresh[t]] \in add
      BY <1>8
    <3>2. [table |-> t, row |-> c, value |-> fresh[t]].row = c
      OBVIOUS
    <3> HIDE DEF add
    <3> QED BY <3>1, <3>2
  <2> HIDE DEF add
  <2> QED BY <2>1, <2>2, <2>3 DEF Ids
<1>14. RowsNumbered'
  <2>1. Ids' = 1..(last_ + 1)
    BY <1>4, <1>5, <1>13
  <2>2. \A u \in DOMAIN stored' : DOMAIN stored'[u] \subseteq Ids'
    BY <1>3, <1>10, <1>13 DEF RowsNumbered
  <2> QED BY <2>1, <2>2, <1>4 DEF RowsNumbered
<1>15. RowsKept'
  <2> SUFFICES ASSUME NEW e \in entered'
               PROVE  /\ e.table \in DOMAIN stored' /\ e.row \in DOMAIN stored'[e.table]
                      /\ stored'[e.table][e.row].kind = e.value.kind
                      /\ e.value.cols \subseteq stored'[e.table][e.row].cols
    BY DEF RowsKept
  <2>1. CASE e \in entered
    <3>1. /\ e.table \in DOMAIN stored /\ e.row \in DOMAIN stored[e.table]
          /\ stored[e.table][e.row].kind = e.value.kind
          /\ e.value.cols \subseteq stored[e.table][e.row].cols
      BY <2>1, <1>3 DEF RowsKept
    <3> QED BY <3>1, <1>10
  <2>2. ASSUME NEW u \in L, e = [table |-> u, row |-> c, value |-> fresh[u]]
        PROVE  /\ e.table \in DOMAIN stored' /\ e.row \in DOMAIN stored'[e.table]
               /\ stored'[e.table][e.row].kind = e.value.kind
               /\ e.value.cols \subseteq stored'[e.table][e.row].cols
    <3>1. e.table = u /\ e.row = c /\ e.value = fresh[u]
      BY <2>2
    <3>2. u \in DOMAIN stored' /\ c \in DOMAIN stored'[u] /\ stored'[u][c] = fresh[u]
      BY <1>6, <1>10
    <3> QED BY <3>1, <3>2
  <2> QED BY <2>1, <2>2, <1>2
<1>16. release' \in Nat /\ phase' # "failed"
  BY <1>2, <1>3
<1> QED BY <1>11, <1>12, <1>14, <1>15, <1>16 DEF SchemaInv

LEMMA NextSchemaInv == SchemaInv /\ [Migrate!MigrationNext]_migrateVars => SchemaInv'
<1> SUFFICES ASSUME SchemaInv, [Migrate!MigrationNext]_migrateVars PROVE SchemaInv'
  OBVIOUS
<1>1. PICK n \in 1..42 : SchemaAt(n)
  BY DEF SchemaInv
\* Steps that leave the schema and the rows alone.
<1>2. ASSUME UNCHANGED <<applied, cols, admits, guarded, stored, entered>>,
             release' \in Nat, phase' # "failed"
      PROVE  SchemaInv'
  <2>1. SchemaAt(n)'
    BY <1>1, <1>2 DEF SchemaAt
  <2>2. RowsFit' /\ RowsNumbered' /\ RowsKept'
    BY <1>2 DEF SchemaInv, RowsFit, RowsNumbered, RowsKept, Ids
  <2> QED BY <1>2, <2>1, <2>2 DEF SchemaInv
<1>3. release \in Nat /\ phase # "failed"
  BY DEF SchemaInv
<1>4. CASE Migrate!Open
  <2>1. release' \in Nat
    BY <1>4, SchemasAssumption DEF Migrate!Open
  <2> QED BY <1>4, <2>1, <1>2 DEF Migrate!Open, Migrate!schemaVars
<1>5. CASE Migrate!Apply
  BY <1>5, ApplyInv
<1>6. CASE Migrate!Check
  <2>1. Migrate!Orphans = {}
    BY SchemaInvMeans DEF Migrate!UpgradeKeepsData
  <2>2. phase' = "up"
    BY <1>6, <2>1 DEF Migrate!Check
  <2> QED BY <1>6, <2>2, <1>2, <1>3 DEF Migrate!Check, Migrate!schemaVars
<1>7. CASE Migrate!Stop \/ Migrate!Die
  BY <1>7, <1>2, <1>3 DEF Migrate!Stop, Migrate!Die, Migrate!schemaVars
<1>8. ASSUME NEW t \in Migrate!Tables, t \in DOMAIN cols, NEW k \in admits[t], Migrate!Enter(t, k)
      PROVE  SchemaInv'
  BY <1>8, EnterInv
<1>9. CASE UNCHANGED migrateVars
  BY <1>9, <1>2, <1>3 DEF migrateVars
<1> QED BY <1>4, <1>5, <1>6, <1>7, <1>8, <1>9 DEF Migrate!MigrationNext

-----------------------------------------------------------------------------
(* Types of the gateway. *)
DoorStates == [at : {"gone", "asked", "upgraded", "live", "closing"}, token : 0..MaxRotations + 1]

LEMMA GoneTyped == Doors!Gone \in DoorStates
BY BoundsAssumption DEF Doors!Gone, DoorStates

LEMMA InitGatewayTyped == Doors!GatewayInit => Doors!GatewayTypeOK
<1> SUFFICES ASSUME Doors!GatewayInit PROVE Doors!GatewayTypeOK
  OBVIOUS
<1>1. /\ 1 \in 1..MaxRotations + 1 /\ 0 \in 0..MaxEvents /\ 0 \in 0..MaxRestarts
  BY BoundsAssumption
<1> QED
  BY <1>1, GoneTyped DEF Doors!GatewayInit, Doors!GatewayTypeOK, DoorStates

LEMMA NextGatewayTyped ==
  Doors!GatewayTypeOK /\ [Doors!GatewayNext]_gatewayVars => Doors!GatewayTypeOK'
<1> SUFFICES ASSUME Doors!GatewayTypeOK, [Doors!GatewayNext]_gatewayVars PROVE Doors!GatewayTypeOK'
  OBVIOUS
<1>1. /\ tokenFile \in 1..MaxRotations + 1 /\ token \in 1..MaxRotations + 1
      /\ rotate \in {"idle", "stored", "swapped"} /\ conn \in [Clients -> DoorStates]
      /\ mail \in [Clients -> SUBSET (1..MaxEvents)] /\ event \in 0..MaxEvents
      /\ view \in [Clients -> 0..MaxEvents] /\ doorStarts \in 0..MaxRestarts
  BY DEF Doors!GatewayTypeOK, DoorStates
\* One handshake goes on.
<1>2. ASSUME NEW c \in Clients, \/ \E t \in 1..MaxRotations + 1 : Doors!Ask(c, t)
                                \/ Doors!Upgrade(c) \/ Doors!Register(c) \/ Doors!Leave(c)
      PROVE  conn' \in [Clients -> DoorStates]
  <2>1. ASSUME NEW t \in 1..MaxRotations + 1, Doors!Ask(c, t) PROVE conn' \in [Clients -> DoorStates]
    <3>1. [at |-> "asked", token |-> t] \in DoorStates
      BY DEF DoorStates
    <3> QED
      BY <1>1, <2>1, <3>1 DEF Doors!Ask
  <2>2. CASE Doors!Upgrade(c)
    <3>1. [conn[c] EXCEPT !.at = "upgraded"] \in DoorStates
      BY <1>1 DEF DoorStates
    <3> QED
      BY <1>1, <2>2, <3>1 DEF Doors!Upgrade
  <2>3. CASE Doors!Register(c)
    <3>1. [conn[c] EXCEPT !.at = "live"] \in DoorStates
      BY <1>1 DEF DoorStates
    <3>2. PICK to \in DoorStates : conn' = [conn EXCEPT ![c] = to]
      BY <2>3, <3>1, GoneTyped DEF Doors!Register
    <3> QED
      BY <1>1, <3>2
  <2>4. CASE Doors!Leave(c)
    BY <1>1, <2>4, GoneTyped DEF Doors!Leave
  <2> QED
    BY <1>2, <2>1, <2>2, <2>3, <2>4
<1>3. ASSUME NEW c \in Clients, NEW t \in 1..MaxRotations + 1, Doors!Ask(c, t) PROVE Doors!GatewayTypeOK'
  BY <1>1, <1>2, <1>3 DEF Doors!Ask, Doors!GatewayTypeOK, DoorStates
<1>4. ASSUME NEW c \in Clients, Doors!Upgrade(c) PROVE Doors!GatewayTypeOK'
  BY <1>1, <1>2, <1>4 DEF Doors!Upgrade, Doors!GatewayTypeOK, DoorStates
<1>5. ASSUME NEW c \in Clients, Doors!Register(c) \/ Doors!Leave(c) PROVE Doors!GatewayTypeOK'
  <2>1. /\ mail' \in [Clients -> SUBSET (1..MaxEvents)] /\ view' \in [Clients -> 0..MaxEvents]
        /\ UNCHANGED <<tokenFile, token, rotate, event, doorStarts>>
    BY <1>1, <1>5 DEF Doors!Register, Doors!Leave
  <2> QED
    BY <1>1, <1>2, <1>5, <2>1 DEF Doors!GatewayTypeOK, DoorStates
<1>6. ASSUME NEW c \in Clients, NEW e \in mail[c], Doors!Write(c, e) \/ Doors!Drop(c, e)
      PROVE  Doors!GatewayTypeOK'
  <2>1. e \in 0..MaxEvents
    BY <1>1
  <2>2. mail' \in [Clients -> SUBSET (1..MaxEvents)] /\ view' \in [Clients -> 0..MaxEvents]
    BY <1>1, <1>6, <2>1 DEF Doors!Write, Doors!Drop
  <2>3. UNCHANGED <<tokenFile, token, rotate, conn, event, doorStarts>>
    BY <1>6 DEF Doors!Write, Doors!Drop
  <2> QED
    BY <1>1, <2>2, <2>3 DEF Doors!GatewayTypeOK, DoorStates
<1>7. CASE Doors!StoreToken
  <2>1. tokenFile' \in 1..MaxRotations + 1
    BY <1>1, <1>7, BoundsAssumption DEF Doors!StoreToken
  <2> QED
    BY <1>1, <1>7, <2>1 DEF Doors!StoreToken, Doors!GatewayTypeOK, DoorStates
<1>8. CASE Doors!SwapToken
  BY <1>1, <1>8 DEF Doors!SwapToken, Doors!GatewayTypeOK, DoorStates
<1>9. CASE Doors!CloseAll
  <2>1. \A c \in Clients : conn'[c] \in DoorStates
    BY <1>1, <1>9 DEF Doors!CloseAll, DoorStates
  <2>2. conn' \in [Clients -> DoorStates]
    BY <1>9, <2>1 DEF Doors!CloseAll
  <2> QED
    BY <1>1, <1>9, <2>2 DEF Doors!CloseAll, Doors!GatewayTypeOK, DoorStates
<1>10. CASE Doors!Broadcast
  <2>1. event + 1 \in 1..MaxEvents /\ event' \in 0..MaxEvents
    BY <1>1, <1>10, BoundsAssumption DEF Doors!Broadcast
  <2>2. mail' \in [Clients -> SUBSET (1..MaxEvents)]
    BY <1>1, <1>10, <2>1 DEF Doors!Broadcast
  <2> QED
    BY <1>1, <1>10, <2>1, <2>2 DEF Doors!Broadcast, Doors!GatewayTypeOK, DoorStates
<1>11. CASE Doors!Restart
  <2>1. doorStarts' \in 0..MaxRestarts
    BY <1>1, <1>11, BoundsAssumption DEF Doors!Restart
  <2> QED
    BY <1>1, <1>11, <2>1, GoneTyped DEF Doors!Restart, Doors!GatewayTypeOK, DoorStates
<1>12. CASE UNCHANGED gatewayVars
  BY <1>1, <1>12 DEF gatewayVars, Doors!GatewayTypeOK, DoorStates
<1> QED
  BY <1>3, <1>4, <1>5, <1>6, <1>7, <1>8, <1>9, <1>10, <1>11, <1>12 DEF Doors!GatewayNext

-----------------------------------------------------------------------------
(* Types of the start. *)
LEMMA InitBootTyped == Start!BootInit => Start!BootTypeOK
<1>1. 0 \in 0..MaxBoots
  BY BoundsAssumption
<1> QED
  BY <1>1 DEF Start!BootInit, Start!BootTypeOK, Start!Stages

LEMMA NextBootTyped == Start!BootTypeOK /\ [Start!BootNext]_bootVars => Start!BootTypeOK'
<1> SUFFICES ASSUME Start!BootTypeOK, [Start!BootNext]_bootVars PROVE Start!BootTypeOK'
  OBVIOUS
<1> DEFINE RunStates == {"none", "running", "interrupted", "done"}
<1>1. /\ stage \in [Daemons -> Start!Stages] /\ runRow \in [Runs -> RunStates]
      /\ worker \in [Runs -> Daemons \cup {Nobody}] /\ upload \in {"none", "files", "row"}
      /\ folder \in BOOLEAN /\ sender \in Daemons \cup {Nobody} /\ daemonStarts \in 0..MaxBoots
  BY DEF Start!BootTypeOK
<1>2. ASSUME NEW d \in Daemons, NEW s \in Start!Stages, Start!To(d, s)
      PROVE  stage' \in [Daemons -> Start!Stages]
  BY <1>1, <1>2 DEF Start!To
<1>3. ASSUME NEW d \in Daemons, Start!Ends(d), UNCHANGED <<runRow, folder, daemonStarts>>
      PROVE  Start!BootTypeOK'
  <2>1. stage' \in [Daemons -> Start!Stages]
    BY <1>2, <1>3 DEF Start!Ends, Start!Stages
  <2>2. worker' \in [Runs -> Daemons \cup {Nobody}]
    BY <1>1, <1>3 DEF Start!Ends
  <2>3. sender' \in {sender, Nobody} /\ upload' \in {upload, "none"}
    BY <1>3 DEF Start!Ends
  <2> QED
    BY <1>1, <1>3, <2>1, <2>2, <2>3 DEF Start!BootTypeOK
<1>4. ASSUME NEW d \in Daemons, NEW s \in Start!Stages, Start!To(d, s),
             UNCHANGED <<runRow, worker, upload, folder, sender, daemonStarts>>
      PROVE  Start!BootTypeOK'
  BY <1>1, <1>2, <1>4 DEF Start!BootTypeOK
<1>5. ASSUME NEW d \in Daemons, Start!Launch(d) PROVE Start!BootTypeOK'
  <2>1. daemonStarts' \in 0..MaxBoots
    BY <1>1, <1>5, BoundsAssumption DEF Start!Launch
  <2>2. "opened" \in Start!Stages /\ Start!To(d, "opened")
    BY <1>5 DEF Start!Launch, Start!Stages
  <2> QED
    BY <1>1, <1>2, <1>5, <2>1, <2>2 DEF Start!Launch, Start!BootTypeOK
<1>6. ASSUME NEW d \in Daemons, Start!Release(d) PROVE Start!BootTypeOK'
  <2>1. "released" \in Start!Stages /\ Start!To(d, "released")
    BY <1>6 DEF Start!Release, Start!Stages
  <2>2. runRow' \in [Runs -> RunStates]
    BY <1>1, <1>6 DEF Start!Release, Start!Released
  <2> QED
    BY <1>1, <1>2, <1>6, <2>1, <2>2 DEF Start!Release, Start!BootTypeOK
<1>7. ASSUME NEW d \in Daemons, Start!Sweep(d) PROVE Start!BootTypeOK'
  <2>1. "swept" \in Start!Stages /\ Start!To(d, "swept")
    BY <1>7 DEF Start!Sweep, Start!Stages
  <2>2. folder' \in BOOLEAN
    BY <1>7 DEF Start!Sweep
  <2> QED
    BY <1>1, <1>2, <1>7, <2>1, <2>2 DEF Start!Sweep, Start!BootTypeOK
<1>8. ASSUME NEW d \in Daemons, Start!StartLoops(d) \/ Start!Signal(d) PROVE Start!BootTypeOK'
  <2>1. \E s \in Start!Stages : Start!To(d, s)
    BY <1>8 DEF Start!StartLoops, Start!Signal, Start!Stages
  <2> QED
    BY <1>4, <1>8, <2>1 DEF Start!StartLoops, Start!Signal
<1>9. ASSUME NEW d \in Daemons, Start!Listen(d) \/ \E ok \in BOOLEAN : Start!ListenLan(d, ok)
      PROVE  Start!BootTypeOK'
  <2>1. UNCHANGED <<runRow, folder, daemonStarts>>
    BY <1>9 DEF Start!Listen, Start!ListenLan
  <2>2. \/ Start!Ends(d)
        \/ (\E s \in {"bound", "serving"} : Start!To(d, s)) /\ UNCHANGED <<worker, upload, sender>>
    BY <1>9 DEF Start!Listen, Start!ListenLan
  <2>3. {"bound", "serving"} \subseteq Start!Stages
    BY DEF Start!Stages
  <2> QED
    BY <1>3, <1>4, <2>1, <2>2, <2>3
<1>10. ASSUME NEW d \in Daemons, NEW r \in Runs, Start!StartRun(d, r) PROVE Start!BootTypeOK'
  BY <1>1, <1>10 DEF Start!StartRun, Start!BootTypeOK
<1>11. ASSUME NEW d \in Daemons, Start!Upload(d) PROVE Start!BootTypeOK'
  BY <1>1, <1>11 DEF Start!Upload, Start!BootTypeOK
<1>12. ASSUME NEW d \in Daemons, Start!Exit(d) \/ Start!Die(d) PROVE Start!BootTypeOK'
  BY <1>3, <1>12 DEF Start!Exit, Start!Die
<1>13. ASSUME NEW r \in Runs, Start!FinishRun(r) PROVE Start!BootTypeOK'
  <2>1. runRow' \in [Runs -> RunStates]
    BY <1>1, <1>13 DEF Start!FinishRun
  <2>2. worker' \in [Runs -> Daemons \cup {Nobody}]
    BY <1>1, <1>13 DEF Start!FinishRun
  <2> QED
    BY <1>1, <1>13, <2>1, <2>2 DEF Start!FinishRun, Start!BootTypeOK
<1>14. CASE Start!Insert
  BY <1>1, <1>14 DEF Start!Insert, Start!BootTypeOK
<1>15. CASE UNCHANGED bootVars
  BY <1>1, <1>15 DEF bootVars, Start!BootTypeOK
<1> QED
  BY <1>5, <1>6, <1>7, <1>8, <1>9, <1>10, <1>11, <1>12, <1>13, <1>14, <1>15 DEF Start!BootNext

-----------------------------------------------------------------------------
(* Types of the settings: a request at the file edits it (EditsFile). *)
Services ==
  [op : Config!Edits \cup {"create", "put", "delete"}, name : Config!Names, chain : Config!Names,
   tree : Config!Files, listed : SUBSET Sessions,
   at : {"idle", "read", "write", "store", "archive", "purge", "drop"}]
EditsFile(request) ==
  request.at \in {"read", "write"} =>
    request.op \in Config!Edits /\ (request.op = "save" => request.name \in Profiles)

SettingsTyped == Config!SettingsTypeOK /\ \A h \in Handlers : EditsFile(serving[h])

LEMMA IdleTyped ==
  /\ Config!Idle \in Services /\ Config!Idle.at = "idle" /\ Config!Idle.op = "save"
  /\ Config!Fresh \in Config!Files
<1>1. Config!Fresh \in Config!Files
  BY DEF Config!Fresh, Config!Files, Config!Names
<1> QED
  BY <1>1 DEF Config!Idle, Services, Config!Edits, Config!Names

LEMMA InitSettingsTyped == Config!SettingsInit => SettingsTyped
<1> SUFFICES ASSUME Config!SettingsInit PROVE SettingsTyped
  OBVIOUS
<1>1. PICK entry \in {None, Absent} : file = [Config!Fresh EXCEPT !.agent = entry]
  BY DEF Config!SettingsInit
<1>2. file \in Config!Files
  BY <1>1, IdleTyped DEF Config!Files, Config!Names
<1>3. mem \in [profiles : SUBSET Profiles, default : Config!Names, chain : Config!Names]
  BY DEF Config!SettingsInit, Config!Names
<1>4. 0 \in 0..MaxSettings
  BY BoundsAssumption
<1>5. serving \in [Handlers -> Services] /\ \A h \in Handlers : EditsFile(serving[h])
  BY IdleTyped DEF Config!SettingsInit, EditsFile
<1> QED
  BY <1>2, <1>3, <1>4, <1>5 DEF Config!SettingsInit, Config!SettingsTypeOK, SettingsTyped, Services

LEMMA NextSettingsTyped == SettingsTyped /\ [Config!SettingsNext]_settingsVars => SettingsTyped'
<1> SUFFICES ASSUME SettingsTyped, [Config!SettingsNext]_settingsVars PROVE SettingsTyped'
  OBVIOUS
<1> DEFINE Mems == [profiles : SUBSET Profiles, default : Config!Names, chain : Config!Names]
           Chats == {"none", "open", "late", "deleted", "lost"}
           Handled == serving \in [Handlers -> Services] /\ \A h \in Handlers : EditsFile(serving[h])
<1>1. /\ file \in Config!Files /\ mem \in Mems /\ agentRow \in Config!Names \cup {Absent}
      /\ chat \in [Sessions -> Chats] /\ archive \in SUBSET Sessions
      /\ configured \in {"down", "up", "refused"} /\ served \in 0..MaxSettings /\ Handled
  BY DEF SettingsTyped, Config!SettingsTypeOK, Services
<1>2. ASSUME NEW h \in Handlers, NEW request \in Services, EditsFile(request),
             serving' = [serving EXCEPT ![h] = request]
      PROVE  Handled'
  <2>1. serving' \in [Handlers -> Services]
    BY <1>1, <1>2
  <2>2. \A g \in Handlers : serving'[g] = request \/ serving'[g] = serving[g]
    BY <1>1, <1>2
  <2> HIDE DEF EditsFile
  <2>3. \A g \in Handlers : EditsFile(serving'[g])
    BY <1>1, <1>2, <2>2
  <2> QED
    BY <2>1, <2>3 DEF EditsFile
<1>3. ASSUME NEW h \in Handlers, Config!Replied(h) PROVE Handled'
  BY <1>2, <1>3, IdleTyped DEF Config!Replied, EditsFile
<1>4. ASSUME NEW h \in Handlers, Config!Serve(h) PROVE served' \in 0..MaxSettings
  BY <1>1, <1>4, BoundsAssumption DEF Config!Serve
<1>5. [mem EXCEPT !.profiles = file.profiles] \in Mems
  BY <1>1 DEF Config!Files
<1>6. ASSUME NEW h \in Handlers, NEW p \in Profiles, Config!SaveProfile(h, p) \/ Config!DeleteProfile(h, p)
      PROVE  SettingsTyped'
  <2> DEFINE saves == [Config!Idle EXCEPT !.at = "read", !.name = p]
             removes == [Config!Idle EXCEPT !.op = "remove", !.at = "read", !.name = p]
  <2>1. saves \in Services /\ EditsFile(saves) /\ removes \in Services /\ EditsFile(removes)
    BY IdleTyped DEF Services, EditsFile, Config!Names, Config!Edits
  <2>2. Config!Serve(h) /\ mem' \in Mems /\ UNCHANGED <<file, agentRow, chat, archive, configured>>
    BY <1>5, <1>6 DEF Config!SaveProfile, Config!DeleteProfile, Config!Refreshed
  <2>3. serving' \in {[serving EXCEPT ![h] = saves], [serving EXCEPT ![h] = removes]}
    BY <1>6 DEF Config!SaveProfile, Config!DeleteProfile, Config!Take
  <2> HIDE DEF saves, removes
  <2>4. Handled'
    BY <1>2, <2>1, <2>3
  <2> QED
    BY <1>1, <1>4, <2>2, <2>4 DEF SettingsTyped, Config!SettingsTypeOK, Services
<1>7. ASSUME NEW h \in Handlers, NEW d \in Config!Names, NEW c \in Config!Names, Config!PatchConfig(h, d, c)
      PROVE  SettingsTyped'
  <2> DEFINE patches == [Config!Idle EXCEPT !.op = "patch", !.at = "read", !.name = d, !.chain = c]
  <2>1. patches \in Services /\ EditsFile(patches)
    BY IdleTyped DEF Services, EditsFile, Config!Edits
  <2>2. /\ Config!Serve(h) /\ serving' = [serving EXCEPT ![h] = patches]
        /\ UNCHANGED <<file, mem, agentRow, chat, archive, configured>>
    BY <1>7 DEF Config!PatchConfig, Config!Take
  <2> HIDE DEF patches
  <2>3. Handled'
    BY <1>2, <2>1, <2>2
  <2> QED
    BY <1>1, <1>4, <2>2, <2>3 DEF SettingsTyped, Config!SettingsTypeOK, Services
<1>8. ASSUME NEW h \in Handlers, Config!ReadTree(h) PROVE SettingsTyped'
  <2> DEFINE reads == [serving[h] EXCEPT !.tree = file, !.at = "write"]
  <2>1. serving[h] \in Services /\ EditsFile(serving[h]) /\ serving[h].at = "read"
    BY <1>1, <1>8 DEF Config!ReadTree
  <2>2. reads \in Services /\ EditsFile(reads)
    BY <1>1, <2>1 DEF Services, EditsFile
  <2>3. serving' = [serving EXCEPT ![h] = reads]
    BY <1>1, <1>8 DEF Config!ReadTree
  <2> HIDE DEF reads
  <2>4. Handled'
    BY <1>2, <2>2, <2>3
  <2> QED
    BY <1>1, <1>8, <2>4 DEF Config!ReadTree, SettingsTyped, Config!SettingsTypeOK, Services
<1>9. ASSUME NEW h \in Handlers, Config!WriteTree(h) PROVE SettingsTyped'
  <2> DEFINE e == serving[h]
  <2>1. e \in Services /\ EditsFile(e) /\ e.at = "write"
    BY <1>1, <1>9 DEF Config!WriteTree
  <2>2. e.op \in Config!Edits /\ e.tree \in Config!Files /\ e.name \in Config!Names /\ e.chain \in Config!Names
    BY <2>1 DEF EditsFile, Services
  <2>3. /\ file' = Config!Edited(e.tree, e) /\ Config!Replied(h)
        /\ UNCHANGED <<agentRow, chat, archive, configured, served>>
    BY <1>9 DEF Config!WriteTree
  <2>4. \/ UNCHANGED mem
        \/ mem' = [mem EXCEPT !.default = e.name, !.chain = e.chain]
        \/ mem' = [mem EXCEPT !.profiles = file'.profiles]
    <3>1. CASE e.op = "patch"
      BY <1>9, <3>1 DEF Config!WriteTree
    <3>2. CASE e.op \in {"save", "remove"} /\ Config!Loads(file')
      BY <1>9, <3>2 DEF Config!WriteTree
    <3>3. CASE e.op # "patch" /\ ~(e.op \in {"save", "remove"} /\ Config!Loads(file'))
      BY <1>9, <3>3 DEF Config!WriteTree
    <3> QED
      BY <3>1, <3>2, <3>3
  <2> HIDE DEF e
  <2>5. (e.op = "save" => e.name \in Profiles) /\ e.tree.profiles \subseteq Profiles
    BY <2>1, <2>2 DEF EditsFile, Config!Files
  <2>6. file' \in Config!Files
    <3>1. CASE e.op = "save"
      BY <2>2, <2>3, <2>5, <3>1 DEF Config!Edited, Config!Files
    <3>2. CASE e.op = "remove"
      BY <2>2, <2>3, <2>5, <3>2 DEF Config!Edited, Config!Files
    <3>3. CASE e.op = "patch"
      BY <2>2, <2>3, <3>3 DEF Config!Edited, Config!Files
    <3>4. CASE e.op = "forget"
      BY <2>2, <2>3, <3>4 DEF Config!Edited, Config!Files
    <3> QED
      BY <2>2, <3>1, <3>2, <3>3, <3>4 DEF Config!Edits
  <2>7. mem' \in Mems
    BY <1>1, <2>2, <2>4, <2>6 DEF Config!Files
  <2>8. Handled'
    BY <1>3, <2>3
  <2> QED
    BY <1>1, <2>3, <2>6, <2>7, <2>8 DEF SettingsTyped, Config!SettingsTypeOK, Services
<1>10. ASSUME NEW h \in Handlers, NEW kind \in {"create", "put"}, NEW n \in Config!Names,
              Config!CheckAgent(h, kind, n)
       PROVE  SettingsTyped'
  <2> DEFINE checks == [Config!Idle EXCEPT !.op = kind, !.at = "store", !.name = Config!Effective(n)]
  <2>1. Config!Effective(n) \in Config!Names
    BY <1>1 DEF Config!Effective
  <2>2. checks \in Services /\ EditsFile(checks)
    BY <2>1, IdleTyped DEF Services, EditsFile
  <2>3. /\ Config!Serve(h) /\ mem' \in Mems /\ serving' = [serving EXCEPT ![h] = checks]
        /\ UNCHANGED <<file, agentRow, chat, archive, configured>>
    BY <1>5, <1>10 DEF Config!CheckAgent, Config!Refreshed, Config!Take
  <2> HIDE DEF checks
  <2>4. Handled'
    BY <1>2, <2>2, <2>3
  <2> QED
    BY <1>1, <1>4, <2>3, <2>4 DEF SettingsTyped, Config!SettingsTypeOK, Services
<1>11. ASSUME NEW h \in Handlers, Config!StoreAgent(h) PROVE SettingsTyped'
  <2>1. serving[h].name \in Config!Names
    BY <1>1 DEF Services
  <2>2. agentRow' \in {agentRow, serving[h].name} /\ Config!Replied(h)
    BY <1>11 DEF Config!StoreAgent
  <2>3. Handled'
    BY <1>3, <2>2
  <2> QED
    BY <1>1, <1>11, <2>1, <2>2, <2>3 DEF Config!StoreAgent, SettingsTyped, Config!SettingsTypeOK, Services
<1>12. ASSUME NEW h \in Handlers, Config!ListAgentSessions(h) PROVE SettingsTyped'
  <2> DEFINE sessions == {s \in Sessions : chat[s] \in {"open", "late"}}
             lists == [Config!Idle EXCEPT !.op = "delete", !.at = "archive", !.listed = sessions]
  <2>1. lists \in Services /\ EditsFile(lists)
    BY IdleTyped DEF Services, EditsFile
  <2>2. /\ Config!Serve(h) /\ serving' = [serving EXCEPT ![h] = lists]
        /\ UNCHANGED <<file, mem, agentRow, chat, archive, configured>>
    BY <1>12 DEF Config!ListAgentSessions, Config!Take
  <2> HIDE DEF lists
  <2>3. Handled'
    BY <1>2, <2>1, <2>2
  <2> QED
    BY <1>1, <1>4, <2>2, <2>3 DEF SettingsTyped, Config!SettingsTypeOK, Services
<1>13. ASSUME NEW h \in Handlers, NEW to \in {"purge", "idle", "drop"}, Config!Go(h, to) PROVE Handled'
  <2> DEFINE goes == [serving[h] EXCEPT !.at = to]
  <2>1. goes \in Services /\ EditsFile(goes)
    BY <1>1 DEF Services, EditsFile
  <2>2. serving' = [serving EXCEPT ![h] = goes]
    BY <1>13 DEF Config!Go
  <2> HIDE DEF goes
  <2> QED
    BY <1>2, <2>1, <2>2
<1>14. ASSUME NEW h \in Handlers, NEW ok \in BOOLEAN, Config!Archive(h, ok) PROVE SettingsTyped'
  <2>1. Config!AfterArchive(ok) \in {"purge", "idle"} /\ Config!Go(h, Config!AfterArchive(ok))
    BY <1>14 DEF Config!Archive, Config!AfterArchive
  <2>2. Handled'
    BY <1>13, <2>1
  <2>3. serving[h].listed \subseteq Sessions
    BY <1>1 DEF Services
  <2>4. archive' \in SUBSET Sessions
    BY <1>1, <1>14, <2>3 DEF Config!Archive
  <2> QED
    BY <1>1, <1>14, <2>2, <2>4 DEF Config!Archive, SettingsTyped, Config!SettingsTypeOK, Services
<1>15. ASSUME NEW h \in Handlers, Config!Purge(h) PROVE SettingsTyped'
  <2>1. Handled'
    BY <1>13, <1>15 DEF Config!Purge
  <2>2. chat' \in [Sessions -> Chats]
    BY <1>1, <1>15 DEF Config!Purge
  <2> QED
    BY <1>1, <1>15, <2>1, <2>2 DEF Config!Purge, SettingsTyped, Config!SettingsTypeOK, Services
<1>16. ASSUME NEW h \in Handlers, Config!Drop(h) PROVE SettingsTyped'
  <2> DEFINE forgets == [serving[h] EXCEPT !.op = "forget", !.at = "read"]
  <2>1. forgets \in Services /\ EditsFile(forgets)
    BY <1>1 DEF Services, EditsFile, Config!Edits
  <2>2. Config!Replied(h) \/ serving' = [serving EXCEPT ![h] = forgets]
    BY <1>1, <1>16 DEF Config!Drop
  <2> HIDE DEF forgets
  <2>3. Handled'
    BY <1>2, <1>3, <2>1, <2>2
  <2>4. agentRow' \in {agentRow, Absent}
    BY <1>16 DEF Config!Drop
  <2> QED
    BY <1>1, <1>16, <2>3, <2>4 DEF Config!Drop, SettingsTyped, Config!SettingsTypeOK, Services
<1>17. ASSUME NEW s \in Sessions, Config!OpenSession(s) PROVE SettingsTyped'
  <2>1. chat' \in [Sessions -> Chats]
    BY <1>1, <1>17 DEF Config!OpenSession
  <2> QED
    BY <1>1, <1>17, <2>1 DEF Config!OpenSession, SettingsTyped, Config!SettingsTypeOK, Services
<1>18. CASE Config!Stop
  <2>1. Handled'
    BY <1>18, IdleTyped DEF Config!Stop, EditsFile
  <2> QED
    BY <1>1, <1>18, <2>1 DEF Config!Stop, SettingsTyped, Config!SettingsTypeOK, Services
<1>19. CASE Config!Start
  <2>1. /\ file.profiles \subseteq Profiles /\ file.default \in Config!Names /\ file.chain \in Config!Names
        /\ file.agent \in Config!Names \cup {Absent}
    BY <1>1 DEF Config!Files
  <2>2. mem' \in Mems
    BY <1>19, <2>1 DEF Config!Start
  <2>3. agentRow' \in {agentRow} \cup Config!Names /\ configured' \in {"up", "refused"}
    BY <1>19, <2>1 DEF Config!Start
  <2> QED
    BY <1>1, <1>19, <2>2, <2>3 DEF Config!Start, SettingsTyped, Config!SettingsTypeOK, Services
<1>20. CASE UNCHANGED settingsVars
  BY <1>1, <1>20 DEF settingsVars, SettingsTyped, Config!SettingsTypeOK, Services
<1> QED
  BY <1>6, <1>7, <1>8, <1>9, <1>10, <1>11, <1>12, <1>14, <1>15, <1>16, <1>17, <1>18, <1>19, <1>20
  DEF Config!SettingsNext

-----------------------------------------------------------------------------
(* Types of a conversation: who is in a transaction found room for its message. *)
RoomLeft == \A w \in Writers : append[w].at # "idle" => last < MaxSeq
StoreBounds ==
  /\ last <= MaxSeq /\ starts \in 0..MaxRestarts
  /\ \A w \in Writers : append[w].next <= MaxSeq + 1
StoreStates ==
  /\ old \in BOOLEAN /\ gate \in BOOLEAN /\ archived \in {"", "user", "sweep"}
  /\ running \in {"none", "registered", "running"} /\ sweep \in {"idle", "listed", "checked"}
StoreTyped == RoomLeft /\ StoreBounds /\ StoreStates

LEMMA StoreTypes == AppendInv /\ PhotoInv /\ StoreTyped => Store!StoreTypeOK
<1> SUFFICES ASSUME AppendInv, PhotoInv, StoreTyped PROVE Store!StoreTypeOK
  OBVIOUS
<1> DEFINE Numbered == [at : {"idle", "begun", "read"}, next : 0..MaxSeq + 1, photos : SUBSET Photos,
                        refused : BOOLEAN]
<1>1. last \in 0..MaxSeq
  BY BoundsAssumption DEF AppendInv, AppendTypes, StoreTyped, StoreBounds
<1>2. ASSUME NEW w \in Writers PROVE append[w] \in Numbered
  <2>1. append[w] \in Appends /\ append[w].next <= MaxSeq + 1
    BY DEF AppendInv, AppendTypes, StoreTyped, StoreBounds
  <2>2. append[w].next \in 0..MaxSeq + 1
    <3>1. append[w].next \in Nat
      BY <2>1 DEF Appends
    <3> QED
      BY <2>1, <3>1, BoundsAssumption
  <2> QED
    BY <2>1, <2>2 DEF Appends
<1>3. append \in [Writers -> Numbered]
  BY <1>2 DEF AppendInv, AppendTypes
<1> QED
  BY <1>1, <1>3 DEF AppendInv, AppendTypes, PhotoInv, PhotoTypes, Jobs, StoreTyped, StoreBounds, StoreStates,
     Store!StoreTypeOK

LEMMA InitStoreTyped == Store!StoreInit => StoreTyped
<1> SUFFICES ASSUME Store!StoreInit PROVE StoreTyped
  OBVIOUS
<1>1. /\ \A w \in Writers : append[w].at = "idle" /\ append[w].next = 0
      /\ last = 0 /\ starts = 0
  BY DEF Store!StoreInit, Store!NoAppend
<1>2. RoomLeft
  BY <1>1 DEF RoomLeft
<1>3. StoreBounds
  BY <1>1, BoundsAssumption DEF StoreBounds
<1>4. StoreStates
  BY DEF Store!StoreInit, StoreStates
<1> QED
  BY <1>2, <1>3, <1>4 DEF StoreTyped

LEMMA NextStoreTyped ==
  AppendInv /\ StoreTyped /\ [Store!StoreNext]_sessionsVars => StoreTyped'
<1> SUFFICES ASSUME AppendInv, StoreTyped, [Store!StoreNext]_sessionsVars PROVE StoreTyped'
  OBVIOUS
<1>1. /\ RoomLeft /\ last <= MaxSeq /\ starts \in 0..MaxRestarts /\ StoreStates
      /\ (\A w \in Writers : append[w].next <= MaxSeq + 1)
      /\ append \in [Writers -> Appends] /\ last \in Nat
  BY DEF StoreTyped, StoreBounds, AppendInv, AppendTypes
<1>2. ASSUME NEW w \in Writers, NEW a, append' = [append EXCEPT ![w] = a], UNCHANGED starts, StoreStates',
             a.at # "idle" => last' < MaxSeq, last' <= MaxSeq, a.next <= MaxSeq + 1,
             last' = last \/ \A v \in Writers \ {w} : append[v].at = "idle"
      PROVE  StoreTyped'
  <2>1. \A v \in Writers : append'[v] = IF v = w THEN a ELSE append[v]
    BY <1>1, <1>2
  <2>2. RoomLeft'
    BY <1>1, <1>2, <2>1 DEF RoomLeft
  <2>3. StoreBounds'
    BY <1>1, <1>2, <2>1 DEF StoreBounds
  <2> QED
    BY <1>2, <2>2, <2>3 DEF StoreTyped
<1>3. ASSUME NEW w \in Writers, NEW ps \in SUBSET Photos, Store!Begin(w, ps) PROVE StoreTyped'
  <2> DEFINE a == [Store!NoAppend EXCEPT !.at = "begun", !.photos = ps]
  <2>1. a.next = 0 /\ a.at = "begun"
    BY DEF Store!NoAppend
  <2>2. append' = [append EXCEPT ![w] = a] /\ last < MaxSeq
    BY <1>3 DEF Store!Begin
  <2>3. UNCHANGED <<last, starts, old, gate, archived, running, sweep>>
    BY <1>3 DEF Store!Begin, Store!archiveVars
  <2>4. StoreStates'
    BY <1>1, <2>3 DEF StoreStates
  <2>5. a.next <= MaxSeq + 1
    BY <2>1, BoundsAssumption
  <2> HIDE DEF a
  <2> QED
    BY <1>1, <1>2, <2>2, <2>3, <2>4, <2>5
<1>4. ASSUME NEW w \in Writers, Store!ReadNext(w) PROVE StoreTyped'
  <2> DEFINE a == [append[w] EXCEPT !.at = "read", !.next = last + 1]
  <2>1. append[w] \in Appends /\ append[w].at = "begun"
    BY <1>1, <1>4 DEF Store!ReadNext
  <2>2. a.next = last + 1
    BY <2>1 DEF Appends
  <2>3. append' = [append EXCEPT ![w] = a]
    BY <1>1, <1>4 DEF Store!ReadNext
  <2>4. UNCHANGED <<last, starts, old, gate, archived, running, sweep>>
    BY <1>4 DEF Store!ReadNext, Store!archiveVars
  <2>5. StoreStates'
    BY <1>1, <2>4 DEF StoreStates
  <2>6. last < MaxSeq
    BY <1>1, <2>1 DEF RoomLeft
  <2>7. a.next <= MaxSeq + 1
    BY <1>1, <2>2, <2>6, BoundsAssumption
  <2> HIDE DEF a
  <2> QED
    BY <1>1, <1>2, <2>3, <2>4, <2>5, <2>6, <2>7
<1>5. ASSUME NEW w \in Writers, Store!Commit(w) PROVE StoreTyped'
  <2> DEFINE a == [Store!NoAppend EXCEPT !.refused = append[w].next # last + 1]
  <2>1. a.next = 0 /\ a.at = "idle"
    BY DEF Store!NoAppend
  <2>2. append[w].at = "read" /\ append' = [append EXCEPT ![w] = a] /\ UNCHANGED <<starts, gate, archived, running, sweep>>
    BY <1>5 DEF Store!Commit
  <2>3. last < MaxSeq /\ dbLock = w /\ append[w].next = last + 1
        /\ \A v \in Writers \ {w} : append[v].at = "idle"
    BY <1>1, <2>2 DEF RoomLeft, AppendInv, LockHeld
  <2>4. last' \in {last, append[w].next} /\ old' \in {old, FALSE}
    BY <1>5 DEF Store!Commit
  <2>5. last' <= MaxSeq
    BY <1>1, <2>3, <2>4, BoundsAssumption
  <2>6. StoreStates'
    BY <1>1, <2>2, <2>4 DEF StoreStates
  <2>7. a.next <= MaxSeq + 1
    BY <2>1, BoundsAssumption
  <2> HIDE DEF a
  <2> QED
    BY <1>2, <2>1, <2>2, <2>3, <2>5, <2>6, <2>7
<1>6. ASSUME UNCHANGED <<last, append, starts>>, StoreStates' PROVE StoreTyped'
  BY <1>1, <1>6 DEF StoreTyped, RoomLeft, StoreBounds
<1>7. ASSUME UNCHANGED <<last, append, starts, old, gate, archived, running, sweep>> PROVE StoreTyped'
  BY <1>1, <1>6, <1>7 DEF StoreStates
<1>8. CASE \/ \E p \in Photos : Store!Upload(p) \/ Store!RemoveDraft(p) \/ Store!Expire(p) \/ Store!CleanupDraft(p)
           \/ Store!WriteFiles \/ Store!RemoveFiles \/ Store!CleanupList \/ Store!CleanupDirs
           \/ Store!DropDirectory \/ (\E ok \in BOOLEAN : Store!InsertRow(ok)) \/ UNCHANGED sessionsVars
  BY <1>7, <1>8 DEF Store!Upload, Store!RemoveDraft, Store!Expire, Store!CleanupDraft, Store!WriteFiles,
     Store!RemoveFiles, Store!CleanupList, Store!CleanupDirs, Store!DropDirectory, Store!InsertRow,
     Store!archiveVars, sessionsVars
<1>9. CASE Store!DropSession
  <2>1. /\ last' = 0 /\ dbLock = None /\ UNCHANGED <<append, starts, old, gate, archived, running, sweep>>
    BY <1>9 DEF Store!DropSession, Store!Writable, Store!archiveVars
  <2>2. \A w \in Writers : append[w].at = "idle"
    BY <2>1, NoneAssumption DEF AppendInv, LockHeld
  <2>3. RoomLeft'
    BY <2>1, <2>2 DEF RoomLeft
  <2>4. StoreBounds'
    BY <1>1, <2>1, BoundsAssumption DEF StoreBounds
  <2>5. StoreStates'
    BY <1>1, <2>1 DEF StoreStates
  <2> QED
    BY <2>3, <2>4, <2>5 DEF StoreTyped
<1>10. CASE Store!Restart
  <2>1. /\ \A w \in Writers : append'[w].at = "idle" /\ append'[w].next = 0
        /\ UNCHANGED <<last, old, gate, archived>> /\ running' = "none" /\ sweep' = "idle"
    BY <1>10 DEF Store!Restart, Store!NoAppend
  <2>2. starts < MaxRestarts /\ starts' = starts + 1
    BY <1>10 DEF Store!Restart
  <2>3. RoomLeft'
    BY <2>1 DEF RoomLeft
  <2>4. StoreBounds'
    BY <1>1, <2>1, <2>2, BoundsAssumption DEF StoreBounds
  <2>5. StoreStates'
    BY <1>1, <2>1 DEF StoreStates
  <2> QED
    BY <2>3, <2>4, <2>5 DEF StoreTyped
<1>11. ASSUME NEW on \in BOOLEAN, Store!SetArchived(on) \/ Store!SetGate(on) PROVE StoreTyped'
  <2>1. StoreStates'
    BY <1>1, <1>11 DEF Store!SetArchived, Store!SetGate, StoreStates
  <2> QED
    BY <1>6, <1>11, <2>1 DEF Store!SetArchived, Store!SetGate
<1>12. CASE Store!SweepList \/ Store!SweepCheck \/ Store!SweepStamp
  <2>1. StoreStates'
    BY <1>1, <1>12 DEF Store!SweepList, Store!SweepCheck, Store!SweepStamp, StoreStates
  <2> QED
    BY <1>6, <1>12, <2>1 DEF Store!SweepList, Store!SweepCheck, Store!SweepStamp
<1>13. CASE Store!TurnRegisters \/ Store!TurnRuns \/ Store!TurnEnds \/ Store!DaysPass
  <2>1. StoreStates'
    BY <1>1, <1>13 DEF Store!TurnRegisters, Store!TurnRuns, Store!TurnEnds, Store!DaysPass, StoreStates
  <2> QED
    BY <1>6, <1>13, <2>1 DEF Store!TurnRegisters, Store!TurnRuns, Store!TurnEnds, Store!DaysPass
<1> QED
  BY <1>3, <1>4, <1>5, <1>8, <1>9, <1>10, <1>11, <1>12, <1>13 DEF Store!StoreNext

-----------------------------------------------------------------------------
(* Types of the updater. *)
Applies == [at : Update!Stages, ver : Releases, bin : 1..2, helper : BOOLEAN]
DaemonStates == [up : BOOLEAN, ver : Releases \cup {0}, leaving : BOOLEAN, restart : BOOLEAN]

LEMMA UpdaterTypes ==
  Update!UpdaterTypeOK <=>
    /\ windows \in BOOLEAN
    /\ disk \in [{"podiom", "podiomd"} -> Update!File] /\ new \in [{"podiom", "podiomd"} -> Update!File]
    /\ updateLock \in Update!Appliers \cup {None} /\ applier \in [Update!Appliers -> Applies]
    /\ daemon \in DaemonStates /\ mishaps \in 0..MaxMishaps
BY DEF Update!UpdaterTypeOK, Applies, DaemonStates

LEMMA IdleApply == Update!Idle \in Applies /\ Update!NoFile \in Update!File
BY ReleasesAssumption DEF Update!Idle, Applies, Update!Stages, Update!NoFile, Update!File

LEMMA InitUpdaterTyped == Update!UpdaterInit => Update!UpdaterTypeOK
<1> SUFFICES ASSUME Update!UpdaterInit PROVE Update!UpdaterTypeOK
  OBVIOUS
<1>1. Update!Whole(1) \in Update!File
  BY ReleasesAssumption DEF Update!Whole, Update!File
<1>2. 0 \in 0..MaxMishaps
  BY BoundsAssumption
<1>3. [up |-> TRUE, ver |-> 1, leaving |-> FALSE, restart |-> FALSE] \in DaemonStates
  BY ReleasesAssumption DEF DaemonStates
<1> QED
  BY <1>1, <1>2, <1>3, IdleApply, UpdaterTypes DEF Update!UpdaterInit

\* What an applier may be after a step of a: it is somewhere else.
LEMMA NowTyped ==
  ASSUME applier \in [Update!Appliers -> Applies], NEW a \in Update!Appliers,
         NEW to \in Update!Stages, Update!Now(a, to)
  PROVE  applier' \in [Update!Appliers -> Applies]
<1>1. [applier[a] EXCEPT !.at = to] \in Applies
  BY DEF Applies
<1>2. applier' = [applier EXCEPT ![a] = [applier[a] EXCEPT !.at = to]]
  BY DEF Update!Now
<1> QED
  BY <1>1, <1>2

LEMMA StagesAre == \A s \in {"idle", "lock", "fetch", "open", "copy", "rename", "done"} : s \in Update!Stages
BY DEF Update!Stages

LEMMA UnlockedTyped ==
  ASSUME NEW a, updateLock \in Update!Appliers \cup {None}
  PROVE  Update!Unlocked(a) \in Update!Appliers \cup {None}
BY DEF Update!Unlocked

LEMMA NextUpdaterTyped ==
  Update!UpdaterTypeOK /\ [Update!UpdaterNext]_updaterVars => Update!UpdaterTypeOK'
<1> SUFFICES ASSUME Update!UpdaterTypeOK, [Update!UpdaterNext]_updaterVars PROVE Update!UpdaterTypeOK'
  OBVIOUS
<1> DEFINE Files == [{"podiom", "podiomd"} -> Update!File]
           States == [Update!Appliers -> Applies]
           Locks == Update!Appliers \cup {None}
<1>1. /\ windows \in BOOLEAN /\ disk \in Files /\ new \in Files /\ updateLock \in Locks
      /\ applier \in States /\ daemon \in DaemonStates /\ mishaps \in 0..MaxMishaps
  BY UpdaterTypes
<1>2. ASSUME windows' \in BOOLEAN, disk' \in Files, new' \in Files, updateLock' \in Locks,
             applier' \in States, daemon' \in DaemonStates, mishaps' \in 0..MaxMishaps
      PROVE  Update!UpdaterTypeOK'
  BY <1>2 DEF Update!UpdaterTypeOK, Applies, DaemonStates
<1>3. mishaps < MaxMishaps /\ mishaps' = mishaps + 1 => mishaps' \in 0..MaxMishaps
  BY <1>1, BoundsAssumption
<1>4. ASSUME NEW a \in Update!Appliers
      PROVE  /\ Update!Bin(a) \in {"podiom", "podiomd"} /\ applier[a] \in Applies
             /\ applier[a].ver \in Releases
  <2>1. applier[a] \in Applies
    BY <1>1
  <2>2. applier[a].bin \in 1..2 /\ applier[a].ver \in Releases
    BY <2>1 DEF Applies
  <2> QED
    BY <2>1, <2>2, Binaries DEF Update!Bin
<1>5. ASSUME NEW a \in Update!Appliers, Update!Fails(a)
      PROVE  applier' \in States /\ updateLock' \in Locks /\ mishaps' \in 0..MaxMishaps
  BY <1>1, <1>3, <1>5, NowTyped, UnlockedTyped, StagesAre DEF Update!Fails
<1>6. ASSUME NEW a \in Update!Appliers, NEW v \in Releases, NEW force \in BOOLEAN, Update!Check(a, v, force)
      PROVE  Update!UpdaterTypeOK'
  <2> DEFINE r == [Update!Idle EXCEPT !.at = "lock", !.ver = v]
  <2>1. r \in Applies
    BY IdleApply DEF Applies, Update!Stages
  <2>2. applier' = [applier EXCEPT ![a] = r] /\ UNCHANGED <<windows, disk, new, updateLock, daemon, mishaps>>
    BY <1>6 DEF Update!Check
  <2> HIDE DEF r
  <2>3. applier' \in States
    BY <1>1, <2>1, <2>2
  <2> QED
    BY <1>1, <1>2, <2>2, <2>3
<1>7. ASSUME NEW a \in Update!Appliers, Update!AcquireLock(a) PROVE Update!UpdaterTypeOK'
  <2>1. applier' \in States /\ updateLock' \in Locks
    BY <1>1, <1>7, NowTyped, StagesAre DEF Update!AcquireLock
  <2> QED
    BY <1>1, <1>2, <1>7, <2>1 DEF Update!AcquireLock
<1>8. ASSUME NEW a \in Update!Appliers, Update!FetchFails(a) PROVE Update!UpdaterTypeOK'
  BY <1>1, <1>2, <1>5, <1>8 DEF Update!FetchFails
<1>9. ASSUME NEW a \in Update!Appliers, Update!Fetched(a) PROVE Update!UpdaterTypeOK'
  <2> DEFINE r == [applier[a] EXCEPT !.at = "open", !.helper = windows]
             leaves == [daemon EXCEPT !.leaving = @ \/ a \in Handlers]
  <2>1. r \in Applies
    BY <1>1, <1>4 DEF Applies, Update!Stages
  <2>2. leaves \in DaemonStates
    BY <1>1 DEF DaemonStates
  <2>3. applier' = [applier EXCEPT ![a] = r] /\ UNCHANGED <<windows, disk, new, mishaps>>
    BY <1>1, <1>9 DEF Update!Fetched
  <2>4. updateLock' \in {updateLock, None} /\ daemon' \in {daemon, leaves}
    BY <1>9 DEF Update!Fetched
  <2> HIDE DEF r, leaves
  <2>5. applier' \in States
    BY <1>1, <2>1, <2>3
  <2> QED
    BY <1>1, <1>2, <2>2, <2>3, <2>4, <2>5
<1>10. ASSUME NEW a \in Update!Appliers, Update!Open(a) PROVE Update!UpdaterTypeOK'
  <2>1. [ver |-> applier[a].ver, whole |-> FALSE] \in Update!File
    BY <1>4 DEF Update!File
  <2>2. new' \in Files
    BY <1>1, <1>4, <1>10, <2>1 DEF Update!Open
  <2>3. applier' \in States
    BY <1>1, <1>10, NowTyped, StagesAre DEF Update!Open
  <2> QED
    BY <1>1, <1>2, <1>10, <2>2, <2>3 DEF Update!Open
<1>11. ASSUME NEW a \in Update!Appliers, Update!Copy(a) PROVE Update!UpdaterTypeOK'
  <2> DEFINE same == new[Update!Bin(a)] = [ver |-> applier[a].ver, whole |-> FALSE]
             filled == [new[Update!Bin(a)] EXCEPT !.whole = same]
  <2>1. filled \in Update!File
    BY <1>1, <1>4 DEF Update!File
  <2>2. new' = [new EXCEPT ![Update!Bin(a)] = filled]
    BY <1>11 DEF Update!Copy
  <2>3. disk' \in {disk, [disk EXCEPT ![Update!Bin(a)] = Update!NoFile]}
    BY <1>11 DEF Update!Copy
  <2>4. UNCHANGED <<windows, updateLock, daemon, mishaps>> /\ Update!Now(a, "rename")
    BY <1>11 DEF Update!Copy
  <2> HIDE DEF filled
  <2>5. new' \in Files /\ disk' \in Files
    BY <1>1, <1>4, <2>1, <2>2, <2>3, IdleApply
  <2>6. applier' \in States
    BY <1>1, <2>4, NowTyped, StagesAre
  <2> QED
    BY <1>1, <1>2, <2>4, <2>5, <2>6
<1>12. ASSUME NEW a \in Update!Appliers, Update!Rename(a) PROVE Update!UpdaterTypeOK'
  <2> DEFINE onto == [applier[a] EXCEPT !.at = "open", !.bin = 2]
  <2>0. 2 \in 1..2
    OBVIOUS
  <2>1. onto \in Applies
    BY <1>4, <2>0, StagesAre DEF Applies
  <2>2. disk' \in Files /\ new' \in Files
    <3>1. /\ disk' = [disk EXCEPT ![Update!Bin(a)] = new[Update!Bin(a)]]
          /\ new' = [new EXCEPT ![Update!Bin(a)] = Update!NoFile]
      BY <1>12 DEF Update!Rename
    <3>2. new[Update!Bin(a)] \in Update!File
      BY <1>1, <1>4
    <3> QED
      BY <1>1, <3>1, <3>2, IdleApply
  <2>3. applier' = [applier EXCEPT ![a] = onto] \/ Update!Now(a, "done")
    BY <1>1, <1>12 DEF Update!Rename
  <2>4. updateLock' \in {updateLock, Update!Unlocked(a)}
    BY <1>12 DEF Update!Rename
  <2>5. daemon' \in {daemon, [daemon EXCEPT !.restart = TRUE], [daemon EXCEPT !.leaving = TRUE]}
    BY <1>12 DEF Update!Rename
  <2>6. UNCHANGED <<windows, mishaps>>
    BY <1>12 DEF Update!Rename
  <2> HIDE DEF onto
  <2>7. applier' \in States
    BY <1>1, <2>1, <2>3, NowTyped, StagesAre
  <2>8. daemon' \in DaemonStates
    BY <1>1, <2>5 DEF DaemonStates
  <2>9. updateLock' \in Locks
    BY <1>1, <2>4, UnlockedTyped
  <2> QED
    BY <1>1, <1>2, <2>2, <2>6, <2>7, <2>8, <2>9
<1>13. ASSUME NEW a \in Update!Appliers, Update!InstallFails(a) PROVE Update!UpdaterTypeOK'
  <2>1. new' \in Files
    BY <1>1, <1>4, <1>13, IdleApply DEF Update!InstallFails
  <2> QED
    BY <1>1, <1>2, <1>5, <1>13, <2>1 DEF Update!InstallFails
<1>14. ASSUME NEW a \in Update!Appliers, Update!Refused(a) PROVE Update!UpdaterTypeOK'
  <2>1. new' \in Files
    BY <1>1, <1>4, <1>14, IdleApply DEF Update!Refused
  <2>2. applier' \in States /\ updateLock' \in Locks
    BY <1>1, <1>14, NowTyped, UnlockedTyped, StagesAre DEF Update!Refused
  <2> QED
    BY <1>1, <1>2, <1>14, <2>1, <2>2 DEF Update!Refused
<1>15. Update!Cut \in States
  <2>1. \A a \in Update!Appliers : [applier[a] EXCEPT !.at = "done"] \in Applies
    BY <1>1 DEF Applies, Update!Stages
  <2> QED
    BY <1>1, <2>1 DEF Update!Cut
<1>16. CASE Update!ExitAfterUpdate \/ Update!Die
  <2> DEFINE gone == [daemon EXCEPT !.up = FALSE, !.leaving = FALSE]
             again == [daemon EXCEPT !.up = FALSE, !.leaving = FALSE, !.restart = TRUE]
             left == [daemon EXCEPT !.up = FALSE, !.leaving = FALSE, !.restart = @ \/ ~windows]
  <2>1. gone \in DaemonStates /\ again \in DaemonStates /\ left \in DaemonStates
    BY <1>1 DEF DaemonStates
  <2>2. daemon' \in {gone, again, left}
    BY <1>16 DEF Update!ExitAfterUpdate, Update!Die
  <2>3. applier' = Update!Cut /\ UNCHANGED <<windows, disk, new, updateLock>>
    BY <1>16 DEF Update!ExitAfterUpdate, Update!Die
  <2>4. mishaps' \in 0..MaxMishaps
    BY <1>1, <1>3, <1>16 DEF Update!ExitAfterUpdate, Update!Die
  <2> HIDE DEF gone, again, left
  <2> QED
    BY <1>1, <1>2, <1>15, <2>1, <2>2, <2>3, <2>4
<1>17. CASE Update!StartDaemon
  <2> DEFINE stays == [daemon EXCEPT !.restart = FALSE]
             fresh == [up |-> TRUE, ver |-> disk["podiomd"].ver, leaving |-> FALSE, restart |-> FALSE]
  <2>1. stays \in DaemonStates
    BY <1>1 DEF DaemonStates
  <2>2. disk["podiomd"] \in Update!File
    BY <1>1
  <2>3. fresh \in DaemonStates
    BY <2>2 DEF DaemonStates, Update!File
  <2>4. daemon' \in {stays, fresh} /\ UNCHANGED <<windows, disk, new, updateLock, applier, mishaps>>
    BY <1>17 DEF Update!StartDaemon
  <2> HIDE DEF stays, fresh
  <2> QED
    BY <1>1, <1>2, <2>1, <2>3, <2>4
<1>18. CASE UNCHANGED updaterVars
  BY <1>1, <1>2, <1>18 DEF updaterVars
<1> QED
  BY <1>6, <1>7, <1>8, <1>9, <1>10, <1>11, <1>12, <1>13, <1>14, <1>16, <1>17, <1>18
     DEF Update!UpdaterNext

-----------------------------------------------------------------------------
(* Types of the skills. *)
Copies == Market!Content \cup {NoSkill, Own}
LockEntries == [src : Sources, sha : 0..MaxHeads] \cup {NoSkill}
InstallCalls ==
  [at : {"idle", "extract", "resolve", "replace", "move", "put", "remove", "delete"},
   src : Sources \cup {"-"}, sha : 0..MaxHeads, whole : BOOLEAN, name : Market!Names,
   knew : BOOLEAN, old : Copies]
\* A request that installs has a source; one that moved a copy aside had one to move.
Bound(r) ==
  /\ r.at \in {"extract", "resolve", "replace", "move", "put"} => r.src \in Sources
  /\ r.at = "move" => r.old # NoSkill

SkillTyped == Market!SkillTypeOK /\ \A h \in Handlers : Bound(skillOp[h])

LEMMA FreeTyped == Market!Free \in InstallCalls /\ Bound(Market!Free)
<1>1. 0 \in 0..MaxHeads
  BY BoundsAssumption
<1> QED
  BY <1>1 DEF Market!Free, InstallCalls, Bound, Copies, Market!Names

LEMMA InitSkillTyped == Market!SkillInit => SkillTyped
<1> SUFFICES ASSUME Market!SkillInit PROVE SkillTyped
  OBVIOUS
<1>1. 0 \in 0..MaxHeads /\ 0 \in 0..MaxSkillCalls
  BY BoundsAssumption
<1> QED
  BY <1>1, FreeTyped DEF Market!SkillInit, Market!SkillTypeOK, SkillTyped, InstallCalls, Copies

LEMMA NextSkillTyped == SkillTyped /\ [Market!SkillNext]_skillsVars => SkillTyped'
<1> SUFFICES ASSUME SkillTyped, [Market!SkillNext]_skillsVars PROVE SkillTyped'
  OBVIOUS
<1> DEFINE Dirs == [Market!Names -> Copies]
           Locks == [Market!Names -> LockEntries]
           Asides == SUBSET (Market!Names \X (Market!Content \cup {Own}))
           Heads == [Sources -> 0..MaxHeads]
           Handled == skillOp \in [Handlers -> InstallCalls] /\ \A h \in Handlers : Bound(skillOp[h])
<1>1. /\ dir \in Dirs /\ aside \in Asides /\ lock \in Locks /\ heads \in Heads /\ Handled
      /\ lost \subseteq Market!Names /\ skillCalls \in 0..MaxSkillCalls
  BY DEF SkillTyped, Market!SkillTypeOK, InstallCalls, Copies, LockEntries
<1>2. ASSUME dir' \in Dirs, aside' \in Asides, lock' \in Locks, heads' \in Heads, Handled',
             lost' \subseteq Market!Names, skillCalls' \in 0..MaxSkillCalls
      PROVE  SkillTyped'
  BY <1>2 DEF SkillTyped, Market!SkillTypeOK, InstallCalls, Copies, LockEntries
<1>3. ASSUME NEW h \in Handlers, NEW r \in InstallCalls, Bound(r), skillOp' = [skillOp EXCEPT ![h] = r]
      PROVE  Handled'
  <2>1. skillOp' \in [Handlers -> InstallCalls]
    BY <1>1, <1>3
  <2>2. \A g \in Handlers : skillOp'[g] = r \/ skillOp'[g] = skillOp[g]
    BY <1>1, <1>3
  <2>3. \A g \in Handlers : Bound(skillOp'[g])
    BY <1>1, <1>3, <2>2 DEF Bound
  <2> QED
    BY <2>1, <2>3 DEF Bound
<1>4. ASSUME NEW h \in Handlers, Market!Ends(h) PROVE Handled'
  BY <1>3, <1>4, FreeTyped DEF Market!Ends
<1>5. ASSUME NEW h \in Handlers, NEW step \in {"put", "delete"}, Market!Goes(h, step), step = "put" => skillOp[h].src \in Sources
      PROVE  Handled'
  <2> DEFINE r == [skillOp[h] EXCEPT !.at = step]
  <2>1. r \in InstallCalls /\ Bound(r)
    BY <1>1, <1>5 DEF InstallCalls, Bound
  <2>2. skillOp' = [skillOp EXCEPT ![h] = r]
    BY <1>5 DEF Market!Goes
  <2> HIDE DEF r
  <2> QED
    BY <1>3, <2>1, <2>2
<1>6. skillCalls < MaxSkillCalls /\ skillCalls' = skillCalls + 1 => skillCalls' \in 0..MaxSkillCalls
  BY <1>1, BoundsAssumption
<1>7. ASSUME NEW h \in Handlers
      PROVE  /\ skillOp[h] \in InstallCalls /\ skillOp[h].name \in Market!Names /\ Bound(skillOp[h])
             /\ dir[skillOp[h].name] \in Copies
             /\ skillOp[h].at \in {"replace", "move"} => Market!Staged(h) \in Copies
             /\ Market!Takes(h) => lost' \subseteq Market!Names
  <2>1. skillOp[h] \in InstallCalls /\ Bound(skillOp[h])
    BY <1>1
  <2>2. skillOp[h].name \in Market!Names /\ skillOp[h].sha \in 0..MaxHeads /\ skillOp[h].whole \in BOOLEAN
    BY <2>1 DEF InstallCalls
  <2>3. skillOp[h].at \in {"replace", "move"} => Market!Staged(h) \in Copies
    BY <2>1, <2>2 DEF Bound, Market!Staged, Copies, Market!Content
  <2>4. Market!Takes(h) => lost' \subseteq Market!Names
    BY <1>1, <2>2 DEF Market!Takes
  <2> QED
    BY <1>1, <2>1, <2>2, <2>3, <2>4
<1>8. ASSUME NEW h \in Handlers, NEW s \in Sources, Market!Begin(h, s) PROVE SkillTyped'
  <2> DEFINE r == [Market!Free EXCEPT !.at = "extract", !.src = s, !.sha = heads[s]]
  <2>1. heads[s] \in 0..MaxHeads
    BY <1>1
  <2>2. r \in InstallCalls /\ Bound(r)
    BY <2>1, FreeTyped DEF InstallCalls, Bound
  <2>3. skillOp' = [skillOp EXCEPT ![h] = r]
    BY <1>8 DEF Market!Begin
  <2> HIDE DEF r
  <2>4. Handled'
    BY <1>3, <2>2, <2>3
  <2> QED
    BY <1>1, <1>2, <1>6, <1>8, <2>4 DEF Market!Begin
<1>9. ASSUME NEW h \in Handlers, NEW n \in Market!Names, Market!Uninstall(h, n) PROVE SkillTyped'
  <2> DEFINE r == [Market!Free EXCEPT !.at = "remove", !.name = n]
  <2>1. r \in InstallCalls /\ Bound(r)
    BY FreeTyped DEF InstallCalls, Bound
  <2>2. skillOp' = [skillOp EXCEPT ![h] = r]
    BY <1>9 DEF Market!Uninstall
  <2> HIDE DEF r
  <2>3. Handled'
    BY <1>3, <2>1, <2>2
  <2> QED
    BY <1>1, <1>2, <1>6, <1>9, <2>3 DEF Market!Uninstall
<1>10. ASSUME NEW h \in Handlers, Market!Extract(h) PROVE SkillTyped'
  <2>1. ASSUME NEW whole \in BOOLEAN, skillOp' = [skillOp EXCEPT ![h].at = "resolve", ![h].whole = whole]
        PROVE  Handled'
    <3> DEFINE r == [skillOp[h] EXCEPT !.at = "resolve", !.whole = whole]
    <3>1. r \in InstallCalls /\ Bound(r)
      BY <1>7, <1>10 DEF InstallCalls, Bound, Market!Extract
    <3>2. skillOp' = [skillOp EXCEPT ![h] = r]
      BY <1>1, <2>1
    <3> HIDE DEF r
    <3> QED
      BY <1>3, <3>1, <3>2
  <2>2. Handled'
    BY <1>4, <1>10, <2>1 DEF Market!Extract
  <2> QED
    BY <1>1, <1>2, <1>10, <2>2 DEF Market!Extract
<1>11. ASSUME NEW h \in Handlers, Market!ResolveDir(h) PROVE SkillTyped'
  <2> DEFINE to == CHOOSE n \in {Market!Base, skillOp[h].src} :
                     Market!Usable(n) /\ (n # Market!Base => ~Market!Usable(Market!Base))
             knew == dir[to] = Own /\ lock[to] = NoSkill
             r == [skillOp[h] EXCEPT !.at = "replace", !.name = to, !.knew = knew]
  <2>0. skillOp[h].at = "resolve" /\ skillOp[h].src \in Sources
    BY <1>7, <1>11 DEF Market!ResolveDir, Bound
  <2>1. CASE Market!Usable(Market!Base) \/ Market!Usable(skillOp[h].src)
    <3>1. to \in Market!Names
      BY <2>0, <2>1, ResolvedIsUsable DEF Market!Names
    <3>2. skillOp' = [skillOp EXCEPT ![h] = r]
      BY <1>1, <1>11, <2>1 DEF Market!ResolveDir
    <3>3. knew \in BOOLEAN
      OBVIOUS
    <3> HIDE DEF to, knew
    <3>4. r \in InstallCalls /\ Bound(r)
      BY <1>7, <2>0, <3>1, <3>3 DEF InstallCalls, Bound
    <3> HIDE DEF r
    <3> QED
      BY <1>1, <1>2, <1>3, <1>11, <3>2, <3>4 DEF Market!ResolveDir
  <2>2. CASE ~(Market!Usable(Market!Base) \/ Market!Usable(skillOp[h].src))
    BY <1>1, <1>2, <1>4, <1>11, <2>2 DEF Market!ResolveDir
  <2> QED
    BY <2>1, <2>2
<1>12. ASSUME NEW h \in Handlers, Market!Replace(h) PROVE SkillTyped'
  <2> DEFINE name == skillOp[h].name
             r == [skillOp[h] EXCEPT !.at = "move", !.old = dir[skillOp[h].name]]
  <2>0. skillOp[h].at = "replace" /\ skillOp[h].src \in Sources /\ UNCHANGED <<lock, heads, skillCalls>>
    BY <1>7, <1>12 DEF Market!Replace, Bound
  <2>1. CASE dir[name] = NoSkill
    <3>1. dir' = [dir EXCEPT ![name] = Market!Staged(h)] /\ Market!Goes(h, "put") /\ UNCHANGED <<aside, lost>>
      BY <1>12, <2>1 DEF Market!Replace
    <3>2. dir' \in Dirs
      BY <1>1, <1>7, <2>0, <3>1
    <3>3. Handled'
      BY <1>5, <2>0, <3>1
    <3> QED
      BY <1>1, <1>2, <2>0, <3>1, <3>2, <3>3
  <2>2. CASE dir[name] # NoSkill
    <3>1. /\ Market!Takes(h) /\ dir' = [dir EXCEPT ![name] = NoSkill]
          /\ aside' = aside \cup {<<name, dir[name]>>}
      BY <1>12, <2>2 DEF Market!Replace
    <3>2. r \in InstallCalls /\ Bound(r)
      BY <1>7, <2>0, <2>2 DEF InstallCalls, Bound
    <3>3. skillOp' = [skillOp EXCEPT ![h] = r]
      BY <1>1, <1>12, <2>2 DEF Market!Replace
    <3> HIDE DEF r
    <3>4. Handled'
      BY <1>3, <3>2, <3>3
    <3>5. NoSkill \in Copies
      BY DEF Copies
    <3>6. dir' \in Dirs
      BY <1>1, <3>1, <3>5
    <3>7. dir[name] \in Market!Content \cup {Own} /\ name \in Market!Names
      BY <1>7, <2>2 DEF Copies
    <3>8. aside' \in Asides
      BY <1>1, <3>1, <3>7
    <3> QED
      BY <1>1, <1>2, <1>7, <2>0, <3>1, <3>4, <3>6, <3>8
  <2> QED
    BY <2>1, <2>2
<1>13. ASSUME NEW h \in Handlers, Market!Move(h) PROVE SkillTyped'
  <2>0. skillOp[h].at = "move" /\ skillOp[h].src \in Sources /\ UNCHANGED <<lock, heads, lost, skillCalls>>
    BY <1>7, <1>13 DEF Market!Move, Bound
  <2>1. skillOp[h].old \in Copies
    BY <1>7 DEF InstallCalls
  <2>2. \/ dir' = [dir EXCEPT ![skillOp[h].name] = Market!Staged(h)]
        \/ dir' = [dir EXCEPT ![skillOp[h].name] = skillOp[h].old]
        \/ UNCHANGED dir
    BY <1>13 DEF Market!Move
  <2>3. dir' \in Dirs
    BY <1>1, <1>7, <2>0, <2>1, <2>2
  <2>4. aside' \subseteq aside
    BY <1>13 DEF Market!Move
  <2>5. Market!Goes(h, "put") \/ Market!Ends(h)
    BY <1>13 DEF Market!Move
  <2>6. Handled'
    BY <1>4, <1>5, <2>0, <2>5
  <2> QED
    BY <1>1, <1>2, <2>0, <2>3, <2>4, <2>6
<1>14. ASSUME NEW h \in Handlers, Market!Put(h) \/ Market!DeleteEntry(h) PROVE SkillTyped'
  <2>1. /\ skillOp[h].name \in Market!Names /\ NoSkill \in LockEntries
        /\ skillOp[h].at = "put" => [src |-> skillOp[h].src, sha |-> skillOp[h].sha] \in LockEntries
    BY <1>7 DEF Bound, InstallCalls, LockEntries
  <2>2. \/ skillOp[h].at = "put" /\ lock' = [lock EXCEPT ![skillOp[h].name] = [src |-> skillOp[h].src, sha |-> skillOp[h].sha]]
        \/ lock' = [lock EXCEPT ![skillOp[h].name] = NoSkill]
    BY <1>14 DEF Market!Put, Market!DeleteEntry
  <2>3. lock' \in Locks
    BY <1>1, <2>1, <2>2
  <2>4. Handled'
    BY <1>4, <1>14 DEF Market!Put, Market!DeleteEntry
  <2> QED
    BY <1>1, <1>2, <1>14, <2>3, <2>4 DEF Market!Put, Market!DeleteEntry
<1>15. ASSUME NEW h \in Handlers, Market!RemoveAll(h) PROVE SkillTyped'
  <2>1. NoSkill \in Copies
    BY DEF Copies
  <2>2. dir' \in Dirs
    BY <1>1, <1>7, <1>15, <2>1 DEF Market!RemoveAll
  <2>3. Handled'
    BY <1>5, <1>15 DEF Market!RemoveAll
  <2> QED
    BY <1>1, <1>2, <1>7, <1>15, <2>2, <2>3 DEF Market!RemoveAll
<1>16. ASSUME NEW s \in Sources, Market!Push(s) PROVE SkillTyped'
  <2>1. heads[s] \in 0..MaxHeads /\ heads[s] < MaxHeads
    BY <1>1, <1>16 DEF Market!Push
  <2>2. heads[s] + 1 \in 0..MaxHeads
    BY <2>1, BoundsAssumption
  <2>3. heads' \in Heads
    BY <1>1, <1>16, <2>2 DEF Market!Push
  <2>4. Handled'
    BY <1>1, <1>16 DEF Market!Push, Bound
  <2> QED
    BY <1>1, <1>2, <1>16, <2>3, <2>4 DEF Market!Push
<1>17. ASSUME NEW n \in Market!Names, Market!PlaceOwn(n) \/ Market!TakeAway(n) PROVE SkillTyped'
  <2>1. NoSkill \in Copies /\ Own \in Copies
    BY DEF Copies
  <2>2. dir' \in Dirs
    BY <1>1, <1>17, <2>1 DEF Market!PlaceOwn, Market!TakeAway
  <2>3. Handled'
    BY <1>1, <1>17 DEF Market!PlaceOwn, Market!TakeAway, Bound
  <2> QED
    BY <1>1, <1>2, <1>6, <1>17, <2>2, <2>3 DEF Market!PlaceOwn, Market!TakeAway
<1>18. CASE Market!Crash
  <2>1. Handled'
    BY <1>18, FreeTyped DEF Market!Crash, Bound
  <2> QED
    BY <1>1, <1>2, <1>6, <1>18, <2>1 DEF Market!Crash
<1>19. CASE UNCHANGED skillsVars
  <2>1. Handled'
    BY <1>1, <1>19 DEF skillsVars, Bound
  <2> QED
    BY <1>1, <1>2, <1>19, <2>1 DEF skillsVars
<1> QED
  BY <1>8, <1>9, <1>10, <1>11, <1>12, <1>13, <1>14, <1>15, <1>16, <1>17, <1>18, <1>19
     DEF Market!SkillNext

-----------------------------------------------------------------------------
(* Types of the toolset: ToolInv has those of what is installed. *)
ToolCounts ==
  legacy \subseteq Legacy /\ torn \subseteq Tools /\ crashes \in 0..MaxCrashes /\ toolCalls \in 0..MaxInstalls
ToolTyped == ToolInv /\ ToolCounts

LEMMA ToolTypedMeans == ToolTyped => Tooling!ToolsetTypeOK
<1> SUFFICES ASSUME ToolTyped PROVE Tooling!ToolsetTypeOK
  OBVIOUS
<1>1. /\ pkg \in [Tools -> SUBSET Tooling!Parts] /\ bin \in [Tools -> {"none", "link", "file"}]
      /\ manifest \in Tooling!Manifest /\ toolOp \in [Handlers -> Installs]
      /\ boot \in [at : {"up", "read", "drop", "save"}, seen : Tooling!Manifest, found : SUBSET Legacy]
  BY DEF ToolTyped, ToolInv
<1>2. bin \in [Tools -> {"none", "link", "file", "bad"}]
  BY <1>1
<1>3. Installs \subseteq
        [at : {"idle", "bootstrap", "fetch", "place", "run", "clear", "extract", "unlink", "link",
               "verify", "load", "save", "drop", "clean"},
         tool : Tools \cup {"-"}, how : Tooling!Hows \cup {"-", "reinstall"}, bad : BOOLEAN,
         left : SUBSET Tooling!Parts, seen : Tooling!Manifest]
  BY DEF Installs
<1> HIDE DEF Installs
<1>4. toolOp \in [Handlers ->
        [at : {"idle", "bootstrap", "fetch", "place", "run", "clear", "extract", "unlink", "link",
               "verify", "load", "save", "drop", "clean"},
         tool : Tools \cup {"-"}, how : Tooling!Hows \cup {"-", "reinstall"}, bad : BOOLEAN,
         left : SUBSET Tooling!Parts, seen : Tooling!Manifest]]
  BY <1>1, <1>3
<1> QED
  BY <1>1, <1>2, <1>4 DEF ToolTyped, ToolCounts, Tooling!ToolsetTypeOK

LEMMA InitToolTyped == Tooling!ToolsetInit => ToolTyped
<1> SUFFICES ASSUME Tooling!ToolsetInit PROVE ToolTyped
  OBVIOUS
<1>1. 0 \in 0..MaxCrashes /\ 0 \in 0..MaxInstalls
  BY BoundsAssumption
<1> QED
  BY <1>1, InitToolInv DEF Tooling!ToolsetInit, ToolTyped, ToolCounts

LEMMA NextToolTyped == ToolTyped /\ [Tooling!ToolsetNext]_toolsetVars => ToolTyped'
<1> SUFFICES ASSUME ToolTyped, [Tooling!ToolsetNext]_toolsetVars PROVE ToolTyped'
  OBVIOUS
<1>1. /\ legacy \subseteq Legacy /\ torn \subseteq Tools
      /\ crashes \in 0..MaxCrashes /\ toolCalls \in 0..MaxInstalls
  BY DEF ToolTyped, ToolCounts
<1>2. ToolCounts'
  <2>1. ASSUME UNCHANGED Tooling!Bookkeeping PROVE ToolCounts'
    BY <1>1, <2>1 DEF Tooling!Bookkeeping, ToolCounts
  <2>2. ASSUME UNCHANGED <<legacy, torn, crashes, toolCalls>> PROVE ToolCounts'
    BY <1>1, <2>2 DEF ToolCounts
  <2>3. CASE Tooling!ReadManifest \/ Tooling!SaveMigrated
    BY <2>2, <2>3 DEF Tooling!ReadManifest, Tooling!SaveMigrated
  <2>4. ASSUME NEW t \in Legacy, Tooling!DropLegacy(t) PROVE ToolCounts'
    BY <1>1, <2>4 DEF Tooling!DropLegacy, ToolCounts
  <2>5. ASSUME NEW h \in Handlers, NEW t \in Tools,
               (\E how \in Tooling!Hows : Tooling!Install(h, t, how)) \/ Tooling!Uninstall(h, t)
        PROVE  ToolCounts'
    <3>1. /\ toolCalls < MaxInstalls /\ toolCalls' = toolCalls + 1 /\ torn' = Tooling!Overlaps(t)
          /\ UNCHANGED <<legacy, crashes>>
      BY <2>5 DEF Tooling!Install, Tooling!Uninstall
    <3>2. toolCalls' \in 0..MaxInstalls
      BY <1>1, <3>1, BoundsAssumption
    <3>3. torn' \subseteq Tools
      BY <1>1, <3>1 DEF Tooling!Overlaps
    <3> QED
      BY <1>1, <3>1, <3>2, <3>3 DEF ToolCounts
  <2>6. ASSUME NEW h \in Handlers,
               \/ Tooling!Bootstrap(h) \/ Tooling!Fetch(h) \/ Tooling!Place(h) \/ Tooling!Run(h)
               \/ Tooling!Clear(h) \/ Tooling!Extract(h) \/ Tooling!Find(h) \/ Tooling!Unlink(h)
               \/ Tooling!Link(h) \/ Tooling!Verify(h) \/ Tooling!Load(h)
        PROVE  ToolCounts'
    <3>1. UNCHANGED Tooling!Bookkeeping
      BY <2>6 DEF Tooling!Bootstrap, Tooling!Fetch, Tooling!Place, Tooling!Run, Tooling!Clear,
         Tooling!Extract, Tooling!Find, Tooling!Unlink, Tooling!Link, Tooling!Verify, Tooling!Load
    <3> QED
      BY <2>1, <3>1
  <2>7. ASSUME NEW h \in Handlers,
               Tooling!RecordInstall(h) \/ Tooling!RemoveEntry(h) \/ Tooling!CleanUp(h)
        PROVE  ToolCounts'
    BY <2>2, <2>7 DEF Tooling!RecordInstall, Tooling!RemoveEntry, Tooling!CleanUp
  <2>8. CASE Tooling!Crash
    <3>1. crashes' \in 0..MaxCrashes
      BY <1>1, <2>8, BoundsAssumption DEF Tooling!Crash
    <3>2. \A h \in Handlers : toolOp[h].at # "idle" => toolOp[h].tool \in Tools
      BY DEF ToolTyped, ToolInv
    <3>3. torn' \subseteq Tools
      BY <1>1, <2>8, <3>2 DEF Tooling!Crash
    <3> QED
      BY <1>1, <2>8, <3>1, <3>3 DEF Tooling!Crash, ToolCounts
  <2>9. CASE UNCHANGED toolsetVars
    BY <2>2, <2>9 DEF toolsetVars
  <2> QED
    BY <2>3, <2>4, <2>5, <2>6, <2>7, <2>8, <2>9 DEF Tooling!ToolsetNext
<1> QED
  BY <1>2, NextToolInv DEF ToolTyped

-----------------------------------------------------------------------------
(* Types of a checkout. *)
Operations ==
  [kind : Checkout!Kinds, at : Checkout!Stages, force : BOOLEAN, stamp : 0..MaxSeconds,
   todo : SUBSET {"git", "file"}, proj : Checkout!Projects]
Codes ==
  [file : Checkout!Files, git : 0..MaxHistories, branch : {"none", "default", "work"}, remote : BOOLEAN]
Backups == [file : BOOLEAN, git : 0..MaxHistories]

LEMMA ProjectTypes ==
  Checkout!ProjectTypeOK <=>
    /\ ledger \in Checkout!Projects /\ snapshot \in BOOLEAN /\ code \in Codes
    /\ backups \in [1..MaxSeconds -> Backups] /\ second \in 1..MaxSeconds
    /\ gitLock \in GitOps \cup {Nobody} /\ op \in [GitOps -> Operations]
    /\ gitTurn \in BOOLEAN /\ made \in 0..MaxHistories /\ cut \in BOOLEAN
    /\ gitMishaps \in 0..MaxMishaps /\ gitCalls \in 0..MaxGitCalls
BY DEF Checkout!ProjectTypeOK, Operations, Codes, Backups

LEMMA ProjectsAre ==
  /\ Checkout!Unset \in Checkout!Projects /\ Checkout!Connected \in Checkout!Projects
  /\ Checkout!Policies \subseteq Checkout!Projects
  /\ \A p \in Checkout!Projects : [p EXCEPT !.mode = "snapshot"] \in Checkout!Projects
  /\ \A p \in Checkout!Projects, m \in {"none", "snapshot", "git"} :
       [p EXCEPT !.mode = m] \in Checkout!Projects
  /\ \A p \in Checkout!Projects : [p EXCEPT !.mode = "none", !.pull = FALSE] \in Checkout!Projects
  /\ \A p \in Checkout!Projects, b \in BOOLEAN : [p EXCEPT !.remote = b] \in Checkout!Projects
<1>1. Checkout!Unset \in Checkout!Projects
  BY DEF Checkout!Unset, Checkout!Projects
<1>2. Checkout!Connected \in Checkout!Projects
  BY <1>1 DEF Checkout!Connected, Checkout!Projects
<1>3. Checkout!Policies \subseteq Checkout!Projects
  <2>1. /\ [Checkout!Unset EXCEPT !.git = "off"] \in Checkout!Projects
        /\ [Checkout!Unset EXCEPT !.git = "on"] \in Checkout!Projects
        /\ [Checkout!Unset EXCEPT !.git = "on", !.remote = TRUE, !.pull = TRUE] \in Checkout!Projects
    BY <1>1 DEF Checkout!Projects
  <2> QED
    BY <2>1 DEF Checkout!Policies
<1>4. \A p \in Checkout!Projects, m \in {"none", "snapshot", "git"} :
        [p EXCEPT !.mode = m] \in Checkout!Projects
  BY DEF Checkout!Projects
<1>5. \A p \in Checkout!Projects : [p EXCEPT !.mode = "none", !.pull = FALSE] \in Checkout!Projects
  BY DEF Checkout!Projects
<1>6. \A p \in Checkout!Projects, b \in BOOLEAN : [p EXCEPT !.remote = b] \in Checkout!Projects
  BY DEF Checkout!Projects
<1> QED
  BY <1>1, <1>2, <1>3, <1>4, <1>5, <1>6

LEMMA StageNames ==
  /\ \A s \in {"idle", "read", "lock", "material", "check", "fetch", "checkout", "forward", "confirm",
               "download", "aside", "in", "place", "ledger", "branch"} : s \in Checkout!Stages
  /\ \A k \in {"archive", "configure", "github", "work"} : k \in Checkout!Kinds
BY DEF Checkout!Stages, Checkout!Kinds

LEMMA RestTyped == Checkout!Rest \in Operations
<1>1. 0 \in 0..MaxSeconds
  BY SecondsAssumption
<1> QED
  BY <1>1, ProjectsAre, StageNames DEF Checkout!Rest, Operations

LEMMA ArchiveTyped ==
  ASSUME NEW policy \in Checkout!Projects, NEW force \in BOOLEAN
  PROVE  Checkout!Archive(policy, force) \in Operations
<1>1. [policy EXCEPT !.mode = "snapshot"] \in Checkout!Projects
  BY ProjectsAre
<1> QED
  BY <1>1, RestTyped, StageNames DEF Checkout!Archive, Operations

LEMMA AfterReadingTyped ==
  ASSUME NEW kind \in Checkout!Kinds, NEW force \in BOOLEAN, NEW proj \in Checkout!Projects
  PROVE  Checkout!AfterReading(kind, force, proj) \in Operations
<1> DEFINE plain == [proj EXCEPT !.mode = "none", !.pull = FALSE]
           next == Checkout!AfterReading(kind, force, proj)
<1>1. plain \in Checkout!Projects
  BY ProjectsAre
<1>2. Checkout!Archive(Checkout!Unset, force) \in Operations
  BY ArchiveTyped, ProjectsAre
<1>3. [Checkout!Rest EXCEPT !.kind = kind, !.at = "ledger"] \in Operations
  BY RestTyped, StageNames DEF Operations
<1>4. [Checkout!Rest EXCEPT !.kind = kind, !.at = "lock", !.proj = plain] \in Operations
  BY <1>1, RestTyped, StageNames DEF Operations
<1>5. next \in {Checkout!Archive(Checkout!Unset, force), [Checkout!Rest EXCEPT !.kind = kind, !.at = "ledger"],
                [Checkout!Rest EXCEPT !.kind = kind, !.at = "lock", !.proj = plain], Checkout!Rest}
  BY DEF Checkout!AfterReading
<1> QED
  BY <1>2, <1>3, <1>4, <1>5, RestTyped

LEMMA InitProjectTyped == Checkout!ProjectInit => Checkout!ProjectTypeOK
<1> SUFFICES ASSUME Checkout!ProjectInit PROVE Checkout!ProjectTypeOK
  OBVIOUS
<1>1. /\ 0 \in 0..MaxHistories /\ 0 \in 0..MaxGitCalls /\ 0 \in 0..MaxMishaps /\ 1 \in 1..MaxSeconds
  BY BoundsAssumption, SecondsAssumption
<1>2. Checkout!Empty \in Codes /\ [Checkout!Empty EXCEPT !.file = "theirs"] \in Codes
  BY <1>1 DEF Checkout!Empty, Codes, Checkout!Files
<1>3. Checkout!NoBackup \in Backups
  BY <1>1 DEF Checkout!NoBackup, Backups
<1>4. ledger \in Checkout!Projects
  <2>1. ASSUME NEW p \in BOOLEAN, ledger = [Checkout!Connected EXCEPT !.mode = "snapshot", !.pull = p]
        PROVE  ledger \in Checkout!Projects
    BY <2>1, ProjectsAre DEF Checkout!Projects
  <2> QED
    BY <2>1, ProjectsAre DEF Checkout!ProjectInit
<1>5. code \in Codes /\ snapshot \in BOOLEAN
  BY <1>2 DEF Checkout!ProjectInit
<1> QED
  BY <1>1, <1>3, <1>4, <1>5, RestTyped, ProjectTypes DEF Checkout!ProjectInit

LEMMA NextProjectTyped ==
  Checkout!ProjectTypeOK /\ [Checkout!ProjectNext]_gitVars => Checkout!ProjectTypeOK'
<1> SUFFICES ASSUME Checkout!ProjectTypeOK, [Checkout!ProjectNext]_gitVars PROVE Checkout!ProjectTypeOK'
  OBVIOUS
<1> DEFINE Locks == GitOps \cup {Nobody}
           Ops == [GitOps -> Operations]
           Saves == [1..MaxSeconds -> Backups]
<1>1. /\ ledger \in Checkout!Projects /\ snapshot \in BOOLEAN /\ code \in Codes
      /\ backups \in Saves /\ second \in 1..MaxSeconds
      /\ gitLock \in Locks /\ op \in Ops
      /\ gitTurn \in BOOLEAN /\ made \in 0..MaxHistories /\ cut \in BOOLEAN
      /\ gitMishaps \in 0..MaxMishaps /\ gitCalls \in 0..MaxGitCalls
  BY ProjectTypes
<1>2. ASSUME ledger' \in Checkout!Projects, snapshot' \in BOOLEAN, code' \in Codes,
             backups' \in Saves, second' \in 1..MaxSeconds,
             gitLock' \in Locks, op' \in Ops,
             gitTurn' \in BOOLEAN, made' \in 0..MaxHistories, cut' \in BOOLEAN,
             gitMishaps' \in 0..MaxMishaps, gitCalls' \in 0..MaxGitCalls
      PROVE  Checkout!ProjectTypeOK'
  BY <1>2 DEF Checkout!ProjectTypeOK, Operations, Codes, Backups
<1>3. gitCalls < MaxGitCalls /\ gitCalls' = gitCalls + 1 => gitCalls' \in 0..MaxGitCalls
  BY <1>1, BoundsAssumption
<1>4. gitMishaps < MaxMishaps /\ gitMishaps' = gitMishaps + 1 => gitMishaps' \in 0..MaxMishaps
  BY <1>1, BoundsAssumption
<1>5. ASSUME NEW o \in GitOps, NEW next \in Operations, op' = [op EXCEPT ![o] = next]
      PROVE  op' \in Ops
  BY <1>1, <1>5
<1>6. ASSUME NEW o \in GitOps
      PROVE  /\ op[o] \in Operations /\ op[o].proj \in Checkout!Projects /\ op[o].force \in BOOLEAN
             /\ op[o].kind \in Checkout!Kinds /\ op[o].stamp \in 0..MaxSeconds
             /\ op[o].todo \in SUBSET {"git", "file"}
  <2>1. op[o] \in Operations
    BY <1>1
  <2> QED
    BY <2>1 DEF Operations
<1>8. ASSUME NEW o \in GitOps, NEW step \in Checkout!Stages, Checkout!Now(o, step)
      PROVE  op' \in Ops
  <2> DEFINE todo == Checkout!Listed(o, step)
             next == [op[o] EXCEPT !.at = step, !.todo = todo]
  <2>1. todo \in SUBSET {"git", "file"}
    BY DEF Checkout!Listed, Checkout!Entries, Checkout!Staged
  <2> HIDE DEF todo
  <2>2. next \in Operations
    BY <1>6, <2>1 DEF Operations
  <2>3. op' = [op EXCEPT ![o] = next]
    BY <1>1, <1>8 DEF Checkout!Now, todo
  <2> HIDE DEF next
  <2> QED
    BY <1>5, <2>2, <2>3
<1>9. ASSUME NEW o \in GitOps, Checkout!Unlocks(o) PROVE gitLock' \in Locks
  BY <1>1, <1>9 DEF Checkout!Unlocks
<1>10. ASSUME NEW o \in GitOps, Checkout!Done(o) PROVE op' \in Ops /\ gitLock' \in Locks
  BY <1>5, <1>9, <1>10, RestTyped DEF Checkout!Done
<1>11. ASSUME NEW o \in GitOps, Checkout!GiveUp(o) PROVE op' \in Ops /\ gitLock' \in Locks
  <2>1. Checkout!Archive(Checkout!Connected, op[o].force) \in Operations
    BY <1>6, ArchiveTyped, ProjectsAre
  <2> QED
    BY <1>5, <1>9, <1>10, <1>11, <2>1 DEF Checkout!GiveUp
<1>12. ASSUME NEW whose \in Checkout!Files, NEW remote \in BOOLEAN, Checkout!NewHistory(whose, remote)
       PROVE  code' \in Codes /\ made' \in 0..MaxHistories
  <2>1. made' \in 0..MaxHistories
    BY <1>1, <1>12, BoundsAssumption DEF Checkout!NewHistory
  <2>2. code' = [file |-> whose, git |-> made', branch |-> "default", remote |-> remote]
    BY <1>12 DEF Checkout!NewHistory
  <2> QED
    BY <2>1, <2>2 DEF Codes
<1>13. code.file \in Checkout!Files /\ code.remote \in BOOLEAN
  BY <1>1 DEF Codes
<1>14. Checkout!Reconciled \in Checkout!Projects
  <2> DEFINE policy == IF ledger.git = "undeclared" THEN "on" ELSE ledger.git
             remote == IF ledger.git = "off" THEN ledger.remote ELSE code.remote
  <2>1. policy \in {"undeclared", "off", "on"} /\ remote \in BOOLEAN
    BY <1>1, <1>13 DEF Checkout!Projects
  <2>2. Checkout!Reconciled \in {ledger, [ledger EXCEPT !.git = policy, !.remote = remote, !.mode = "git"]}
    BY <1>1 DEF Checkout!Reconciled, Checkout!Projects
  <2> HIDE DEF policy, remote
  <2> QED
    BY <1>1, <2>1, <2>2 DEF Checkout!Projects
<1>15. ASSUME NEW o \in GitOps, NEW next \in Operations, Checkout!Reconcile(o, next),
              gitCalls' \in 0..MaxGitCalls
       PROVE  Checkout!ProjectTypeOK'
  BY <1>1, <1>2, <1>5, <1>14, <1>15 DEF Checkout!Reconcile
\* The operations, one by one.
<1>20. ASSUME NEW o \in GitOps, NEW kind \in Checkout!Kinds, NEW force \in BOOLEAN,
              Checkout!Start(o, kind, force)
       PROVE  Checkout!ProjectTypeOK'
  <2>1. Checkout!AfterReading(kind, force, Checkout!Reconciled) \in Operations
    BY <1>14, AfterReadingTyped
  <2> QED
    BY <1>3, <1>15, <1>20, <2>1 DEF Checkout!Start
<1>21. ASSUME NEW o \in GitOps, Checkout!ReconcileAgain(o) PROVE Checkout!ProjectTypeOK'
  BY <1>1, <1>15, <1>21, RestTyped DEF Checkout!ReconcileAgain
<1>22. ASSUME NEW o \in GitOps, NEW force \in BOOLEAN, Checkout!FromGitHub(o, force)
       PROVE  Checkout!ProjectTypeOK'
  <2> DEFINE policy == [Checkout!Connected EXCEPT !.mode = "git"]
             next == [Checkout!Rest EXCEPT !.kind = "github", !.at = "lock", !.force = force, !.proj = policy]
  <2>1. policy \in Checkout!Projects
    BY ProjectsAre
  <2>2. next \in Operations
    BY <2>1, RestTyped, StageNames DEF Operations
  <2>3. op' = [op EXCEPT ![o] = next]
    BY <1>22 DEF Checkout!FromGitHub
  <2> HIDE DEF next
  <2>4. op' \in Ops
    BY <1>5, <2>2, <2>3
  <2> QED
    BY <1>1, <1>2, <1>3, <1>22, <2>4 DEF Checkout!FromGitHub
<1>23. ASSUME NEW o \in GitOps, Checkout!Lock(o) PROVE Checkout!ProjectTypeOK'
  <2> DEFINE synced == [Checkout!Unset EXCEPT !.mode = ledger.mode]
             next == [op[o] EXCEPT !.at = "check", !.proj = synced]
  <2>1. ledger.mode \in {"none", "snapshot", "git"}
    BY <1>1 DEF Checkout!Projects
  <2>2. synced \in Checkout!Projects
    BY <2>1, ProjectsAre
  <2>3. next \in Operations
    BY <1>6, <2>2 DEF Operations, Checkout!Stages
  <2>4. \/ Checkout!Done(o)
        \/ gitLock' = o /\ op' = [op EXCEPT ![o] = next]
        \/ gitLock' = o /\ Checkout!Now(o, Checkout!After("github", "start"))
        \/ gitLock' = o /\ Checkout!Now(o, "material")
    BY <1>1, <1>23 DEF Checkout!Lock
  <2> HIDE DEF next
  <2>5. "material" \in Checkout!Stages /\ Checkout!After("github", "start") \in Checkout!Stages
    BY DEF Checkout!Stages, Checkout!After
  <2>6. op' \in Ops /\ gitLock' \in Locks
    BY <1>5, <1>8, <1>10, <2>3, <2>4, <2>5
  <2> QED
    BY <1>1, <1>2, <1>23, <2>6 DEF Checkout!Lock
<1>24. ASSUME NEW o \in GitOps, Checkout!Materialize(o) PROVE Checkout!ProjectTypeOK'
  <2> DEFINE whose == IF op[o].proj.remote THEN "theirs" ELSE code.file
  <2>1. whose \in Checkout!Files /\ op[o].proj.remote \in BOOLEAN
    BY <1>6, <1>13 DEF Checkout!Files, Checkout!Projects
  <2>2. UNCHANGED <<code, made>> \/ Checkout!NewHistory(whose, op[o].proj.remote)
    BY <1>24 DEF Checkout!Materialize
  <2> HIDE DEF whose
  <2>3. code' \in Codes /\ made' \in 0..MaxHistories
    BY <1>1, <1>12, <2>1, <2>2
  <2>4. \/ Checkout!Done(o)
        \/ Checkout!Now(o, "check") /\ UNCHANGED gitLock
        \/ Checkout!Now(o, "branch") /\ Checkout!Unlocks(o)
    BY <1>24 DEF Checkout!Materialize
  <2>5. "check" \in Checkout!Stages /\ "branch" \in Checkout!Stages
    BY DEF Checkout!Stages
  <2>6. op' \in Ops /\ gitLock' \in Locks
    BY <1>1, <1>8, <1>9, <1>10, <2>4, <2>5
  <2> QED
    BY <1>1, <1>2, <1>24, <2>3, <2>6 DEF Checkout!Materialize
<1>25. ASSUME NEW o \in GitOps, Checkout!CheckTree(o) \/ Checkout!Fetch(o) \/ Checkout!Confirm(o)
                                \/ Checkout!Clone(o) \/ Checkout!DownloadArchive(o) \/ Checkout!Moved(o)
       PROVE  Checkout!ProjectTypeOK'
  <2>1. \A k, s : Checkout!After(k, s) \in Checkout!Stages
    BY DEF Checkout!After, Checkout!Stages
  <2>2. "fetch" \in Checkout!Stages /\ "checkout" \in Checkout!Stages
    BY DEF Checkout!Stages
  <2>3. Checkout!Done(o) \/ \E s \in Checkout!Stages : Checkout!Now(o, s) /\ UNCHANGED gitLock
    BY <1>25, <2>1, <2>2 DEF Checkout!CheckTree, Checkout!Fetch, Checkout!Confirm, Checkout!Clone,
       Checkout!DownloadArchive, Checkout!Moved
  <2>4. op' \in Ops /\ gitLock' \in Locks
    BY <1>1, <1>8, <1>10, <2>3
  <2>5. UNCHANGED <<ledger, code, snapshot, backups, second, gitTurn, made, cut, gitMishaps, gitCalls>>
    BY <1>25 DEF Checkout!CheckTree, Checkout!Fetch, Checkout!Confirm, Checkout!Clone,
       Checkout!DownloadArchive, Checkout!Moved
  <2> QED
    BY <1>1, <1>2, <2>4, <2>5
<1>26. ASSUME NEW o \in GitOps, Checkout!CheckoutDefault(o) PROVE Checkout!ProjectTypeOK'
  <2>1. [code EXCEPT !.branch = "default"] \in Codes /\ "forward" \in Checkout!Stages
    BY <1>1 DEF Codes, Checkout!Stages
  <2>2. code' \in Codes
    BY <1>1, <1>26, <2>1 DEF Checkout!CheckoutDefault
  <2>3. op' \in Ops /\ gitLock' \in Locks
    BY <1>1, <1>8, <1>10, <1>26, <2>1 DEF Checkout!CheckoutDefault
  <2> QED
    BY <1>1, <1>2, <1>26, <2>2, <2>3 DEF Checkout!CheckoutDefault
<1>27. ASSUME NEW o \in GitOps, Checkout!FastForward(o) PROVE Checkout!ProjectTypeOK'
  <2>1. [code EXCEPT !.file = "theirs"] \in Codes /\ "ledger" \in Checkout!Stages
    BY <1>1 DEF Codes, Checkout!Files, Checkout!Stages
  <2>2. code' \in Codes
    BY <1>1, <1>27, <2>1 DEF Checkout!FastForward
  <2>3. op' \in Ops /\ gitLock' \in Locks
    BY <1>1, <1>8, <1>10, <1>27, <2>1 DEF Checkout!FastForward
  <2> QED
    BY <1>1, <1>2, <1>27, <2>2, <2>3 DEF Checkout!FastForward
<1>28. ASSUME NEW o \in GitOps, NEW force \in BOOLEAN, NEW asked \in Checkout!Policies,
              Checkout!Configure(o, force, asked)
       PROVE  Checkout!ProjectTypeOK'
  <2> DEFINE Started(to, policy) == [Checkout!Rest EXCEPT !.kind = "configure", !.at = to,
                                         !.proj = policy, !.todo = Checkout!Listed(o, to)]
             Goes(to, policy) == op' = [op EXCEPT ![o] = Started(to, policy)]
             adopted == [code EXCEPT !.remote = @ \/ asked.remote]
  <2>1. asked \in Checkout!Projects /\ asked.remote \in BOOLEAN
    BY ProjectsAre DEF Checkout!Projects
  <2>2. ASSUME NEW to \in Checkout!Stages, NEW policy \in Checkout!Projects, Goes(to, policy)
        PROVE  op' \in Ops
    <3> DEFINE todo == Checkout!Listed(o, to)
               next == [Checkout!Rest EXCEPT !.kind = "configure", !.at = to, !.proj = policy, !.todo = todo]
    <3>1. todo \in SUBSET {"git", "file"}
      BY DEF Checkout!Listed, Checkout!Entries, Checkout!Staged
    <3>2. op' = [op EXCEPT ![o] = next]
      BY <2>2
    <3> HIDE DEF todo
    <3>3. next \in Operations
      BY <3>1, RestTyped, StageNames DEF Operations
    <3> HIDE DEF next
    <3> QED
      BY <1>5, <3>2, <3>3
  <2>3. adopted \in Codes
    BY <1>1, <2>1 DEF Codes
  <2>4. "ledger" \in Checkout!Stages /\ Checkout!After("configure", "start") \in Checkout!Stages
    BY DEF Checkout!Stages, Checkout!After
  <2>5. /\ gitCalls < MaxGitCalls /\ gitCalls' = gitCalls + 1 /\ gitLock' = o
        /\ UNCHANGED <<ledger, snapshot, backups, second, gitTurn, cut, gitMishaps>>
    BY <1>28 DEF Checkout!Configure
  <2>6. \/ Goes("ledger", asked) /\ UNCHANGED <<code, made>>
        \/ code' = adopted /\ Goes("ledger", [asked EXCEPT !.remote = code'.remote]) /\ UNCHANGED made
        \/ Goes(Checkout!After("configure", "start"), asked) /\ UNCHANGED <<code, made>>
        \/ Checkout!NewHistory(code.file, FALSE) /\ Goes("ledger", asked)
    BY <1>28 DEF Checkout!Configure
  <2> HIDE DEF Goes, adopted
  <2>7. code' \in Codes /\ made' \in 0..MaxHistories
    BY <1>1, <1>12, <1>13, <2>3, <2>6
  <2>8. code'.remote \in BOOLEAN
    BY <2>7 DEF Codes
  <2>9. [asked EXCEPT !.remote = code'.remote] \in Checkout!Projects
    BY <2>1, <2>8, ProjectsAre
  <2>10. op' \in Ops
    BY <2>1, <2>2, <2>4, <2>6, <2>9
  <2> QED
    BY <1>1, <1>2, <1>3, <2>5, <2>7, <2>10
<1>29. ASSUME NEW o \in GitOps, Checkout!Place(o) PROVE Checkout!ProjectTypeOK'
  <2>1. "ledger" \in Checkout!Stages /\ "theirs" \in Checkout!Files /\ TRUE \in BOOLEAN
    BY DEF Checkout!Stages, Checkout!Files
  <2>2. code' \in Codes /\ made' \in 0..MaxHistories
    BY <1>1, <1>12, <1>29, <2>1 DEF Checkout!Place
  <2>3. op' \in Ops /\ gitLock' \in Locks
    BY <1>1, <1>8, <1>11, <1>29, <2>1 DEF Checkout!Place
  <2> QED
    BY <1>1, <1>2, <1>29, <2>2, <2>3 DEF Checkout!Place
<1>30. ASSUME NEW o \in GitOps, Checkout!MoveAside(o) PROVE Checkout!ProjectTypeOK'
  <2> DEFINE s == Checkout!Stamp(o)
             todo == op[o].todo \ {Checkout!First(o)}
             next == [op[o] EXCEPT !.stamp = s, !.todo = todo]
             kept == [backups[s] EXCEPT !.git = code.git]
             keptFile == [backups[s] EXCEPT !.file = TRUE]
  <2>1. s \in 1..MaxSeconds /\ s \in 0..MaxSeconds
    <3>1. op[o].stamp \in 0..MaxSeconds
      BY <1>6
    <3> QED
      BY <1>1, <3>1, SecondsAssumption DEF Checkout!Stamp
  <2>2. todo \in SUBSET {"git", "file"}
    BY <1>6
  <2>3. op' = [op EXCEPT ![o] = next]
    BY <1>1, <1>30 DEF Checkout!MoveAside
  <2>4. backups' \in {[backups EXCEPT ![s] = kept], [backups EXCEPT ![s] = keptFile]}
    BY <1>30 DEF Checkout!MoveAside, Checkout!Displaced
  <2>5. code' \in {[code EXCEPT !.git = 0, !.branch = "none", !.remote = FALSE], [code EXCEPT !.file = "none"]}
    BY <1>30 DEF Checkout!MoveAside
  <2>6. UNCHANGED <<ledger, snapshot, second, gitLock, gitTurn, made, cut, gitMishaps, gitCalls>>
    BY <1>30 DEF Checkout!MoveAside
  <2> HIDE DEF s, todo
  <2>7. next \in Operations
    BY <1>6, <2>1, <2>2 DEF Operations
  <2>8. backups[s] \in Backups /\ code.git \in 0..MaxHistories
    BY <1>1, <2>1 DEF Codes
  <2>9. kept \in Backups /\ keptFile \in Backups
    BY <2>8 DEF Backups
  <2> HIDE DEF next, kept, keptFile
  <2>10. op' \in Ops
    BY <1>5, <2>3, <2>7
  <2>11. backups' \in Saves
    BY <1>1, <2>1, <2>4, <2>9
  <2>12. 0 \in 0..MaxHistories
    BY BoundsAssumption
  <2>13. code' \in Codes
    BY <1>1, <2>5, <2>12 DEF Codes, Checkout!Files
  <2> QED
    BY <1>1, <1>2, <2>6, <2>10, <2>11, <2>13
<1>31. ASSUME NEW o \in GitOps, Checkout!MoveIn(o) PROVE Checkout!ProjectTypeOK'
  <2> DEFINE todo == op[o].todo \ {Checkout!First(o)}
             next == [op[o] EXCEPT !.todo = todo]
  <2>1. todo \in SUBSET {"git", "file"}
    BY <1>6
  <2>2. op' = [op EXCEPT ![o] = next]
    BY <1>31 DEF Checkout!MoveIn
  <2>3. \/ Checkout!NewHistory(code.file, TRUE)
        \/ code' = [code EXCEPT !.file = "theirs"] /\ UNCHANGED made
    BY <1>31 DEF Checkout!MoveIn
  <2> HIDE DEF todo
  <2>4. next \in Operations
    BY <1>6, <2>1 DEF Operations
  <2> HIDE DEF next
  <2>5. op' \in Ops
    BY <1>5, <2>2, <2>4
  <2>6. [code EXCEPT !.file = "theirs"] \in Codes
    BY <1>1 DEF Codes, Checkout!Files
  <2>7. code' \in Codes /\ made' \in 0..MaxHistories
    BY <1>1, <1>12, <1>13, <2>3, <2>6
  <2> QED
    BY <1>1, <1>2, <1>31, <2>5, <2>7 DEF Checkout!MoveIn
<1>32. ASSUME NEW o \in GitOps, Checkout!MovedIn(o) PROVE Checkout!ProjectTypeOK'
  <2> DEFINE mode == IF op[o].kind = "archive" THEN "snapshot" ELSE "git"
             policy == [op[o].proj EXCEPT !.mode = mode]
             next == [op[o] EXCEPT !.at = "ledger", !.proj = policy]
  <2>1. policy \in Checkout!Projects
    BY <1>6, ProjectsAre
  <2>2. op' = [op EXCEPT ![o] = next]
    BY <1>1, <1>32 DEF Checkout!MovedIn, Operations
  <2> HIDE DEF policy
  <2>3. next \in Operations
    BY <1>6, <2>1 DEF Operations, Checkout!Stages
  <2> HIDE DEF next
  <2>4. op' \in Ops
    BY <1>5, <2>2, <2>3
  <2>5. snapshot' \in BOOLEAN
    BY <1>1, <1>32 DEF Checkout!MovedIn
  <2> QED
    BY <1>1, <1>2, <1>32, <2>4, <2>5 DEF Checkout!MovedIn
<1>33. ASSUME NEW o \in GitOps, Checkout!Blocked(o) PROVE Checkout!ProjectTypeOK'
  BY <1>1, <1>2, <1>10, <1>33 DEF Checkout!Blocked
<1>34. ASSUME NEW o \in GitOps, Checkout!SaveLedger(o) PROVE Checkout!ProjectTypeOK'
  <2> DEFINE base == IF op[o].proj.git = "undeclared" THEN ledger ELSE op[o].proj
             mode == IF op[o].proj.mode = "none" THEN ledger.mode ELSE op[o].proj.mode
             next == [Checkout!Rest EXCEPT !.at = "read"]
  <2>1. base \in Checkout!Projects /\ mode \in {"none", "snapshot", "git"}
    BY <1>1, <1>6 DEF Checkout!Projects
  <2>2. Checkout!Saved(op[o].proj) = [base EXCEPT !.mode = mode]
    BY DEF Checkout!Saved
  <2>3. ledger' \in {[ledger EXCEPT !.mode = "none"], Checkout!Saved(op[o].proj)}
    BY <1>34 DEF Checkout!SaveLedger
  <2> HIDE DEF base, mode
  <2>4. ledger' \in Checkout!Projects
    BY <1>1, <2>1, <2>2, <2>3, ProjectsAre
  <2>5. next \in Operations
    BY RestTyped, StageNames DEF Operations
  <2>6. Checkout!Done(o) \/ (op' = [op EXCEPT ![o] = next] /\ UNCHANGED gitLock)
    BY <1>34 DEF Checkout!SaveLedger
  <2> HIDE DEF next
  <2>7. op' \in Ops /\ gitLock' \in Locks
    BY <1>1, <1>5, <1>10, <2>5, <2>6
  <2> QED
    BY <1>1, <1>2, <1>34, <2>4, <2>7 DEF Checkout!SaveLedger
<1>35. ASSUME NEW o \in GitOps, Checkout!Fail(o) PROVE Checkout!ProjectTypeOK'
  <2>1. op' \in Ops /\ gitLock' \in Locks
    BY <1>11, <1>35 DEF Checkout!Fail
  <2>2. cut' \in BOOLEAN
    BY <1>1, <1>35 DEF Checkout!Fail
  <2> QED
    BY <1>1, <1>2, <1>4, <1>35, <2>1, <2>2 DEF Checkout!Fail
<1>36. ASSUME NEW o \in GitOps, Checkout!StartWork(o) PROVE Checkout!ProjectTypeOK'
  <2>1. [code EXCEPT !.branch = "work"] \in Codes
    BY <1>1 DEF Codes
  <2>2. code' \in Codes
    BY <1>1, <1>36, <2>1 DEF Checkout!StartWork, Checkout!Branched
  <2> QED
    BY <1>1, <1>2, <1>10, <1>36, <2>2 DEF Checkout!StartWork
<1>37. CASE Checkout!TurnBegins \/ Checkout!TurnEnds
  BY <1>1, <1>2, <1>37 DEF Checkout!TurnBegins, Checkout!TurnEnds
<1>38. CASE Checkout!Edit \/ Checkout!Commit
  <2>1. [code EXCEPT !.file = "mine"] \in Codes /\ [code EXCEPT !.file = "theirs"] \in Codes
    BY <1>1 DEF Codes, Checkout!Files
  <2> QED
    BY <1>1, <1>2, <1>38, <2>1 DEF Checkout!Edit, Checkout!Commit
<1>39. CASE Checkout!GitInit
  <2>1. code' \in Codes /\ made' \in 0..MaxHistories
    BY <1>12, <1>13, <1>39 DEF Checkout!GitInit
  <2> QED
    BY <1>1, <1>2, <1>39, <2>1 DEF Checkout!GitInit
<1>40. CASE Checkout!Tick
  <2>1. second' \in 1..MaxSeconds
    BY <1>1, <1>40, SecondsAssumption DEF Checkout!Tick
  <2> QED
    BY <1>1, <1>2, <1>40, <2>1 DEF Checkout!Tick
<1>41. CASE Checkout!Die
  <2>1. op' \in Ops /\ gitLock' \in Locks
    BY <1>41, RestTyped DEF Checkout!Die
  <2>2. cut' \in BOOLEAN
    BY <1>1, <1>41 DEF Checkout!Die
  <2> QED
    BY <1>1, <1>2, <1>4, <1>41, <2>1, <2>2 DEF Checkout!Die
<1>42. CASE UNCHANGED gitVars
  BY <1>1, <1>2, <1>42 DEF gitVars
<1> QED
  BY <1>20, <1>21, <1>22, <1>23, <1>24, <1>25, <1>26, <1>27, <1>28, <1>29, <1>30, <1>31, <1>32,
     <1>33, <1>34, <1>35, <1>36, <1>37, <1>38, <1>39, <1>40, <1>41, <1>42 DEF Checkout!ProjectNext

-----------------------------------------------------------------------------
(* Types of the schema: SchemaInv says what is migrated and stored; what it leaves open is *)
(* counted here. A migration makes triggers only on tables that are there after it.        *)
GuardsFit(v, m) == \A g \in m.guards : g = "sessions" \/ (g = "goal_events" /\ v >= 14)

LEMMA GuardsAreOfTables == ASSUME NEW v \in 2..42 PROVE GuardsFit(v, Migrate!migrations[v])
<1> USE DEF GuardsFit, Migrate!NoChange, Migrate!New, Migrate!Adds
<1>2. GuardsFit(2, Migrate!core_domain)
  BY DEF Migrate!core_domain
<1>3. GuardsFit(3, Migrate!session_metadata_and_settings)
  BY DEF Migrate!session_metadata_and_settings
<1>4. GuardsFit(4, Migrate!schedule_runs)
  BY DEF Migrate!schedule_runs
<1>5. GuardsFit(5, Migrate!tasks)
  BY DEF Migrate!tasks
<1>6. GuardsFit(6, Migrate!onboarding_origin)
  BY DEF Migrate!onboarding_origin
<1>7. GuardsFit(7, Migrate!session_project_id)
  BY DEF Migrate!session_project_id
<1>8. GuardsFit(8, Migrate!push_subscriptions)
  BY DEF Migrate!push_subscriptions
<1>9. GuardsFit(9, Migrate!agent_mcp_servers)
  BY DEF Migrate!agent_mcp_servers
<1>10. GuardsFit(10, Migrate!agent_memory_dreaming)
  BY DEF Migrate!agent_memory_dreaming
<1>11. GuardsFit(11, Migrate!plan_mode)
  BY DEF Migrate!plan_mode
<1>12. GuardsFit(12, Migrate!message_kind)
  BY DEF Migrate!message_kind
<1>13. GuardsFit(13, Migrate!session_context_window)
  BY DEF Migrate!session_context_window
<1>14. GuardsFit(14, Migrate!goals)
  BY DEF Migrate!goals
<1>15. GuardsFit(15, Migrate!agent_avatar)
  BY DEF Migrate!agent_avatar
<1>16. GuardsFit(16, Migrate!session_token_usage)
  BY DEF Migrate!session_token_usage
<1>17. GuardsFit(17, Migrate!run_targets)
  BY DEF Migrate!run_targets
<1>18. GuardsFit(18, Migrate!goal_rate_limit_recovery)
  BY DEF Migrate!goal_rate_limit_recovery, Migrate!EventRebuild
<1>19. GuardsFit(19, Migrate!message_reasoning_kind)
  BY DEF Migrate!message_reasoning_kind
<1>20. GuardsFit(20, Migrate!goal_user_feedback_events)
  BY DEF Migrate!goal_user_feedback_events, Migrate!EventRebuild
<1>21. GuardsFit(21, Migrate!goal_yolo_tool_audit)
  BY DEF Migrate!goal_yolo_tool_audit, Migrate!EventRebuild
<1>22. GuardsFit(22, Migrate!agent_questions)
  BY DEF Migrate!agent_questions, Migrate!EventRebuild
<1>23. GuardsFit(23, Migrate!editable_unread_goal_feedback)
  BY DEF Migrate!editable_unread_goal_feedback
<1>24. GuardsFit(24, Migrate!goal_runs_and_lead_session)
  BY DEF Migrate!goal_runs_and_lead_session
<1>25. GuardsFit(25, Migrate!drop_provider_checks)
  BY DEF Migrate!drop_provider_checks, Migrate!AgentSessions
<1>26. GuardsFit(26, Migrate!interview_origin)
  BY DEF Migrate!interview_origin
<1>27. GuardsFit(27, Migrate!message_photo_attachments)
  BY DEF Migrate!message_photo_attachments
<1>28. GuardsFit(28, Migrate!drop_permission_mode_checks)
  BY DEF Migrate!drop_permission_mode_checks, Migrate!AgentSessions
<1>29. GuardsFit(29, Migrate!goal_next_step)
  BY DEF Migrate!goal_next_step
<1>30. GuardsFit(30, Migrate!message_narration_kind)
  BY DEF Migrate!message_narration_kind
<1>31. GuardsFit(31, Migrate!goal_action_items)
  BY DEF Migrate!goal_action_items, Migrate!EventRebuild
<1>32. GuardsFit(32, Migrate!session_source_control_warning)
  BY DEF Migrate!session_source_control_warning
<1>33. GuardsFit(33, Migrate!task_created_by)
  BY DEF Migrate!task_created_by
<1>34. GuardsFit(34, Migrate!workspace_file_snapshots)
  BY DEF Migrate!workspace_file_snapshots
<1>35. GuardsFit(35, Migrate!schedule_runs_webhook_trigger)
  BY DEF Migrate!schedule_runs_webhook_trigger
<1>36. GuardsFit(36, Migrate!session_archived_at)
  BY DEF Migrate!session_archived_at
<1>37. GuardsFit(37, Migrate!notifications)
  BY DEF Migrate!notifications
<1>38. GuardsFit(38, Migrate!notification_devices)
  BY DEF Migrate!notification_devices
<1>39. GuardsFit(39, Migrate!notification_device_status)
  BY DEF Migrate!notification_device_status
<1>40. GuardsFit(40, Migrate!session_project_overrides)
  BY DEF Migrate!session_project_overrides
<1>41. GuardsFit(41, Migrate!goal_feedback_pinned)
  BY DEF Migrate!goal_feedback_pinned
<1>42. GuardsFit(42, Migrate!durable_goal_memory)
  BY DEF Migrate!durable_goal_memory
<1> QED
  <2> HIDE DEF GuardsFit
  <2>1. v = 2 \/ v = 3 \/ v = 4 \/ v = 5 \/ v = 6 \/ v = 7 \/ v = 8 \/ v = 9 \/ v = 10 \/ v = 11 \/ v = 12 \/ v = 13 \/ v = 14 \/ v = 15 \/ v = 16 \/ v = 17 \/ v = 18 \/ v = 19 \/ v = 20 \/ v = 21 \/ v = 22 \/ v = 23 \/ v = 24 \/ v = 25 \/ v = 26 \/ v = 27 \/ v = 28 \/ v = 29 \/ v = 30 \/ v = 31 \/ v = 32 \/ v = 33 \/ v = 34 \/ v = 35 \/ v = 36 \/ v = 37 \/ v = 38 \/ v = 39 \/ v = 40 \/ v = 41 \/ v = 42
    BY SMT
  <2> QED BY <2>1, MigrationNumbers, <1>2, <1>3, <1>4, <1>5, <1>6, <1>7, <1>8, <1>9, <1>10, <1>11, <1>12, <1>13, <1>14, <1>15, <1>16, <1>17, <1>18, <1>19, <1>20, <1>21, <1>22, <1>23, <1>24, <1>25, <1>26, <1>27, <1>28, <1>29, <1>30, <1>31, <1>32, <1>33, <1>34, <1>35, <1>36, <1>37, <1>38, <1>39, <1>40, <1>41, <1>42

SchemaCounts ==
  /\ release \in Schemas /\ guarded \subseteq DOMAIN cols /\ Ids \subseteq 1..MaxRows
  /\ phase \in {"down", "migrating", "up", "failed"} /\ ran \in BOOLEAN /\ deaths \in 0..MaxUpgrades
SchemaTyped == SchemaInv /\ SchemaCounts

LEMMA SchemaTypedMeans == SchemaTyped => Migrate!MigrationTypeOK
<1> SUFFICES ASSUME SchemaTyped PROVE Migrate!MigrationTypeOK
  OBVIOUS
<1>1. PICK n \in 1..42 : SchemaAt(n)
  BY DEF SchemaTyped, SchemaInv
<1>2. /\ applied = 1..n /\ DOMAIN cols \subseteq Migrate!Tables
      /\ DOMAIN admits = DOMAIN cols /\ DOMAIN stored = DOMAIN cols
      /\ \A t \in DOMAIN cols : cols[t] \subseteq AddedBefore(t, n + 1)
  BY <1>1 DEF SchemaAt
<1>3. applied \subseteq Migrate!Versions
  BY <1>2, MigrationNumbers
<1>4. \A t : AddedTo(t) \subseteq 1..42
  BY DEF AddedTo
<1>5. \A t \in DOMAIN cols : cols[t] \subseteq Migrate!Versions
  <2>1. \A t : AddedBefore(t, n + 1) \subseteq 1..42
    BY <1>4 DEF AddedBefore
  <2> QED
    BY <1>2, <2>1, MigrationNumbers
<1>6. \A t \in DOMAIN stored : DOMAIN stored[t] \subseteq 1..MaxRows
  <2>1. \A t \in DOMAIN stored : DOMAIN stored[t] \subseteq Ids
    BY DEF SchemaTyped, SchemaInv, RowsNumbered
  <2> QED
    BY <2>1 DEF SchemaTyped, SchemaCounts
<1> QED
  BY <1>2, <1>3, <1>5, <1>6 DEF SchemaTyped, SchemaCounts, Migrate!MigrationTypeOK

LEMMA InitSchemaTyped == Init => SchemaTyped
<1> SUFFICES ASSUME Init PROVE SchemaTyped
  OBVIOUS
<1>1. /\ guarded = {} /\ release \in Schemas /\ phase = "down" /\ ran = FALSE /\ entered = {}
      /\ deaths = 0
  BY DEF Init, Migrate!MigrationInit
<1>2. 0 \in 0..MaxUpgrades
  BY BoundsAssumption
<1>3. Ids = {}
  BY <1>1 DEF Ids
<1> QED
  BY <1>1, <1>2, <1>3, InitSchemaInv DEF SchemaTyped, SchemaCounts

\* The migration that comes next is the one after the last applied.
LEMMA NextMigration ==
  ASSUME SchemaInv, Migrate!Pending # {}, NEW n \in 1..42, SchemaAt(n)
  PROVE  (CHOOSE w \in Migrate!Pending : \A u \in Migrate!Pending : w <= u) = n + 1 /\ n + 1 \in 2..42
<1> DEFINE least == CHOOSE w \in Migrate!Pending : \A u \in Migrate!Pending : w <= u
<1>1. Migrate!Pending = {w \in 1..42 : w <= release /\ w \notin 1..n}
  BY MigrationNumbers DEF Migrate!Pending, SchemaAt
<1>2. release \in Nat
  BY DEF SchemaInv
<1>3. n + 1 \in Migrate!Pending /\ \A u \in Migrate!Pending : n + 1 <= u
  BY <1>1, <1>2
<1>4. least \in Migrate!Pending /\ \A u \in Migrate!Pending : least <= u
  BY <1>3
<1> HIDE DEF least
<1>5. least \in 1..42 /\ least <= n + 1 /\ n + 1 <= least /\ n + 1 \in 1..42
  BY <1>1, <1>3, <1>4
<1>6. least = n + 1 /\ n + 1 \in 2..42
  BY <1>5
<1> QED
  BY <1>6 DEF least

LEMMA NextSchemaTyped == SchemaTyped /\ [Migrate!MigrationNext]_migrateVars => SchemaTyped'
<1> SUFFICES ASSUME SchemaTyped, [Migrate!MigrationNext]_migrateVars PROVE SchemaTyped'
  OBVIOUS
<1>1. /\ release \in Schemas /\ guarded \subseteq DOMAIN cols /\ Ids \subseteq 1..MaxRows
      /\ phase \in {"down", "migrating", "up", "failed"} /\ ran \in BOOLEAN
      /\ deaths \in 0..MaxUpgrades /\ SchemaInv
  BY DEF SchemaTyped, SchemaCounts
<1>2. PICK n \in 1..42 : SchemaAt(n)
  BY <1>1 DEF SchemaInv
<1>3. ASSUME UNCHANGED <<cols, guarded, entered>>, release' \in Schemas, ran' \in BOOLEAN,
             phase' \in {"down", "migrating", "up", "failed"}, deaths' \in 0..MaxUpgrades
      PROVE  SchemaCounts'
  BY <1>1, <1>3 DEF SchemaCounts, Ids
<1>4. ASSUME Migrate!Open \/ Migrate!Check \/ Migrate!Stop PROVE SchemaCounts'
  <2>1. /\ UNCHANGED <<cols, guarded, entered, deaths>> /\ release' \in {release} \cup Schemas
        /\ phase' \in {"down", "migrating", "up", "failed"}
    BY <1>4 DEF Migrate!Open, Migrate!Check, Migrate!Stop, Migrate!schemaVars
  <2>2. ran' = ran \/ ran' = FALSE
    BY <1>4 DEF Migrate!Open, Migrate!Check, Migrate!Stop
  <2>3. ran' \in BOOLEAN
    BY <1>1, <2>2
  <2> QED
    BY <1>1, <1>3, <2>1, <2>3
<1>5. ASSUME Migrate!Die PROVE SchemaCounts'
  <2>1. deaths' \in 0..MaxUpgrades
    BY <1>1, <1>5, BoundsAssumption DEF Migrate!Die
  <2>2. UNCHANGED <<cols, guarded, entered, release>> /\ phase' = "down"
    BY <1>5 DEF Migrate!Die, Migrate!schemaVars
  <2>3. ran' \in BOOLEAN
    BY <1>1, <1>5 DEF Migrate!Die
  <2> QED
    BY <1>1, <1>3, <2>1, <2>2, <2>3
<1>6. ASSUME Migrate!Apply PROVE SchemaCounts'
  <2> DEFINE v == CHOOSE w \in Migrate!Pending : \A u \in Migrate!Pending : w <= u
             m == Migrate!migrations[v]
  <2>1. v = n + 1 /\ v \in 2..42
    BY <1>1, <1>2, <1>6, NextMigration DEF Migrate!Apply
  <2>2. /\ UNCHANGED <<release, entered, deaths>>
        /\ \/ phase' = "failed" /\ UNCHANGED <<Migrate!schemaVars, ran>>
           \/ /\ ran' = TRUE /\ UNCHANGED phase
              /\ cols' = [t \in DOMAIN cols \cup m.new |-> Migrate!Columns(m, t, v)]
              /\ guarded' = (guarded \ DOMAIN m.keeps) \cup m.guards
    BY <1>6 DEF Migrate!Apply
  <2> HIDE DEF v
  <2>3. GuardsFit(v, m) /\ Fits(v, m)
    BY <2>1, GuardsAreOfTables, MigrationsFit
  <2> HIDE DEF m
  <2>4. m.new = {t \in Migrate!Tables : Born(t) = v}
    BY <2>3 DEF Fits
  <2>5. DOMAIN cols = {t \in Migrate!Tables : Born(t) <= n}
    BY <1>2 DEF SchemaAt
  <2>6. /\ "sessions" \in Migrate!Tables /\ "goal_events" \in Migrate!Tables
        /\ Born("sessions") = 2 /\ Born("goal_events") = 14
    BY DEF Migrate!Tables, Born
  <2>7. m.guards \subseteq DOMAIN cols \cup m.new
    <3>1. (v >= 14 => "goal_events" \in DOMAIN cols \cup m.new) /\ "sessions" \in DOMAIN cols \cup m.new
      BY <2>1, <2>4, <2>5, <2>6
    <3> QED
      BY <2>3, <3>1 DEF GuardsFit
  <2>8. CASE phase' = "failed" /\ UNCHANGED <<Migrate!schemaVars, ran>>
    <3>1. UNCHANGED <<cols, guarded, entered, release, deaths>>
      BY <2>2, <2>8 DEF Migrate!schemaVars
    <3>2. ran' \in BOOLEAN
      BY <1>1, <2>8
    <3> QED
      BY <1>1, <1>3, <2>8, <3>1, <3>2
  <2>9. CASE /\ ran' = TRUE /\ UNCHANGED phase
             /\ cols' = [t \in DOMAIN cols \cup m.new |-> Migrate!Columns(m, t, v)]
             /\ guarded' = (guarded \ DOMAIN m.keeps) \cup m.guards
    <3>1. guarded' \subseteq DOMAIN cols'
      BY <1>1, <2>7, <2>9
    <3>2. ran' \in BOOLEAN
      BY <2>9
    <3>3. Ids' \subseteq 1..MaxRows
      BY <1>1, <2>2 DEF Ids
    <3>4. release' \in Schemas /\ deaths' \in 0..MaxUpgrades /\ phase' \in {"down", "migrating", "up", "failed"}
      BY <1>1, <2>2, <2>9
    <3> QED
      BY <3>1, <3>2, <3>3, <3>4 DEF SchemaCounts
  <2>10. SchemaCounts'
    BY <2>2, <2>8, <2>9
  <2> QED
    BY <2>10
<1>7. ASSUME NEW t \in Migrate!Tables, t \in DOMAIN cols, NEW k \in admits[t], Migrate!Enter(t, k)
      PROVE  SchemaCounts'
  <2> DEFINE c == Migrate!Cardinality({e.row : e \in entered}) + 1
  <2>1. PICK top \in Nat : Ids = 1..top
    BY <1>1 DEF SchemaInv, RowsNumbered
  <2>2. c = top + 1
    <3>1. \A S : Migrate!Cardinality(S) = Cardinality(S)
      BY DEF Migrate!Cardinality, Cardinality
    <3>2. Cardinality(1..top) = top
      BY <2>1, FS_Interval
    <3>3. {e.row : e \in entered} = 1..top
      BY <2>1 DEF Ids
    <3>4. c = Cardinality(1..top) + 1
      BY <3>1, <3>3
    <3> HIDE DEF c
    <3> QED BY <3>2, <3>4
  <2>3. /\ c <= MaxRows /\ UNCHANGED <<cols, guarded, release, phase, ran, deaths>>
        /\ \A e \in entered' : e \in entered \/ e.row = c
    BY <1>7 DEF Migrate!Enter
  <2> HIDE DEF c
  <2>4. c \in 1..MaxRows
    BY <2>1, <2>2, <2>3, BoundsAssumption
  <2>5. Ids' \subseteq 1..MaxRows
    BY <1>1, <2>3, <2>4 DEF Ids
  <2> QED
    BY <1>1, <2>3, <2>5 DEF SchemaCounts
<1>8. ASSUME UNCHANGED migrateVars PROVE SchemaCounts'
  <2>1. UNCHANGED <<cols, guarded, entered, release, phase, deaths>>
    BY <1>8 DEF migrateVars
  <2>2. ran' \in BOOLEAN
    BY <1>1, <1>8 DEF migrateVars
  <2> QED
    BY <1>1, <1>3, <2>1, <2>2
<1>9. SchemaInv'
  BY <1>1, NextSchemaInv
<1>10. SchemaCounts'
  BY <1>4, <1>5, <1>6, <1>7, <1>8 DEF SchemaTyped, Migrate!MigrationNext
<1> QED
  BY <1>9, <1>10 DEF SchemaTyped

-----------------------------------------------------------------------------
\* Once a rotation has answered, no socket of an earlier token is live, not even
\* one that was authorized before it and registered after (server/ws.go:42-45).
THEOREM RotationCloses == Spec => []OldSocketsClose
<1>1. Init => GatewayInv
  BY InitGatewayInv DEF Init
<1>2. GatewayInv /\ [Next]_vars => GatewayInv'
  BY StepsOfOne, NextGatewayInv
<1>3. GatewayInv => OldSocketsClose
  BY DEF GatewayInv, DoorTypes, LiveIsCurrent, OldSocketsClose, Doors!OldSocketsClose
<1> QED
  BY <1>1, <1>2, <1>3, PTL DEF Spec

\* What is installed is whole (updater/updater.go:440-520, tools/install.go:120-260,
\* marketplace/install.go:90-260): where a binary is replaced in one step, podiom and
\* podiomd stay whole and end up of one release, whoever dies and however many apply
\* updates at once; a tool install that fails alone leaves nothing behind; and no request
\* takes a directory away that the user placed before it chose the name.
THEOREM InstalledWhole == Spec => []InstalledIsWhole
<1>1. Init => UpdateInv /\ ToolInv /\ SkillInv
  BY InitUpdateInv, InitToolInv, InitSkillInv DEF Init
<1>2. UpdateInv /\ [Next]_vars => UpdateInv'
  BY StepsOfOne, NextUpdateInv
<1>3. ToolInv /\ [Next]_vars => ToolInv'
  BY StepsOfOne, NextToolInv
<1>4. SkillInv /\ [Next]_vars => SkillInv'
  BY StepsOfOne, NextSkillInv
<1>5. UpdateInv /\ ToolInv /\ SkillInv => InstalledIsWhole
  BY UpdateInvMeans, ToolInvMeans, SkillInvMeans DEF InstalledIsWhole
<1> QED
  BY <1>1, <1>2, <1>3, <1>4, <1>5, PTL DEF Spec

\* What was stored stays, of one daemon: every upgrade, through any releases and cut off
\* anywhere, finds the tables and columns it expects and keeps every row with its columns
\* and its parents (store/migrate.go:1595-1690); a daemon that takes requests has no run
\* lock without its run and no photo without its file (core/attachments.go:100-210); a
\* deleted agent's conversations are archived (core/agents.go:185-215); a checkout that is
\* replaced is in a backup (core/project_git.go:230-420); no append is refused
\* (store/sessions.go:545-600).  A second daemon on the same storage root sweeps before it
\* finds the port taken, hence the hypothesis.
THEOREM StoredKept ==
  ASSUME OneDaemon
  PROVE  Spec => []StoredStays
<1> DEFINE Inv == SchemaInv /\ BootInv /\ SettingsInv /\ AppendInv /\ PhotoInv /\ GitInv
<1>1. Init => Inv
  BY InitSchemaInv, InitBootInv, InitSettingsInv, InitStoreInv, InitGitInv DEF Init
<1>2. Inv /\ [Next]_vars => Inv'
  BY StepsOfOne, NextSchemaInv, NextBootInv, NextSettingsInv, NextAppendInv, NextPhotoInv,
     NextGitInv
<1>3. Inv => StoredStays
  BY SchemaInvMeans, BootInvMeans, StoreInvMeans, GitInvMeans DEF StoredStays, SettingsInv
<1> QED
  BY <1>1, <1>2, <1>3, PTL DEF Spec

\* Every component of the host keeps its types: a socket, a request at the settings, a
\* conversation's lock and photos, a step of the updater, an install's files, a checkout's
\* operation and the schema's tables stay in the states the code gives them, whichever
\* component runs, whoever dies and however many daemons there are.
THEOREM TypeCorrect == Spec => []TypeOK
<1> DEFINE Inv == /\ SchemaTyped /\ Start!BootTypeOK /\ Doors!GatewayTypeOK /\ SettingsTyped
                  /\ AppendInv /\ PhotoInv /\ StoreTyped /\ Update!UpdaterTypeOK
                  /\ ToolTyped /\ SkillTyped /\ Checkout!ProjectTypeOK
<1>1. Init => Inv
  BY InitSchemaTyped, InitBootTyped, InitGatewayTyped, InitSettingsTyped, InitStoreInv,
     InitStoreTyped, InitUpdaterTyped, InitToolTyped, InitSkillTyped, InitProjectTyped DEF Init
<1>2. Inv /\ [Next]_vars => Inv'
  <2> SUFFICES ASSUME Inv, [Next]_vars PROVE Inv'
    OBVIOUS
  <2>1. SchemaTyped'
    BY StepsOfOne, NextSchemaTyped
  <2>2. Start!BootTypeOK' /\ Doors!GatewayTypeOK'
    BY StepsOfOne, NextBootTyped, NextGatewayTyped
  <2>3. SettingsTyped'
    BY StepsOfOne, NextSettingsTyped
  <2>4. AppendInv' /\ PhotoInv' /\ StoreTyped'
    BY StepsOfOne, NextAppendInv, NextPhotoInv, NextStoreTyped
  <2>5. Update!UpdaterTypeOK'
    BY StepsOfOne, NextUpdaterTyped
  <2>6. ToolTyped' /\ SkillTyped'
    BY StepsOfOne, NextToolTyped, NextSkillTyped
  <2>7. Checkout!ProjectTypeOK'
    BY StepsOfOne, NextProjectTyped
  <2> QED
    BY <2>1, <2>2, <2>3, <2>4, <2>5, <2>6, <2>7
<1>3. Inv => TypeOK
  BY SchemaTypedMeans, ToolTypedMeans, StoreTypes DEF TypeOK, SettingsTyped, SkillTyped
<1> QED
  BY <1>1, <1>2, <1>3, PTL DEF Spec
===============================================================================
