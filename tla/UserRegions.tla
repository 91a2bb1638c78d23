------------------------------ MODULE UserRegions ------------------------------
(***************************************************************************)
(* User regions: a program that TaskProfile describes also calls the       *)
(* control_tool callback to begin and end regions of its own, by name      *)
(* (region_begin_name, region_end_name) or with the static data that       *)
(* OMPT_REGION_DEFINE declares (region_begin, region_end).  Every name is  *)
(* used at one place of the program: the name is its code pointer.  A call *)
(* while the profiler is paused changes nothing.                           *)
(***************************************************************************)
EXTENDS TaskProfile

CONSTANTS UserFeatures,  \* see ASSUME
          MaxUser        \* bound: user regions begun

ASSUME UserRegionsAssumption ==
  /\ UserFeatures \subseteq
       {"static",     \* regions with static data, not by name
        "recursive",  \* a region begins again before it ends on that thread
        "tasks",      \* tasks are created or left in the middle of a region
        "undeferred", \* a region begins in an undeferred task
        "groups"}     \* regions begin or end in the middle of a taskgroup
  /\ MaxUser \in Nat

VARIABLES
  user,  \* map:     per thread tData->userRegionMap, from names to regions
         \* sParent: sParentPtr of the user regions
         \* data:    per name data.ptr of the static ompt_region_data_t
  open,  \* per task the user regions it is in: their name, and the region
         \* that was current when they began
  begun  \* how many user regions began

userVars == <<prof, env, user, open, begun>>

(* Maps that grow.                                                         *)
Lookup(f, x) == IF x \in DOMAIN f THEN f[x] ELSE NoRegion
Put(f, x, r) == [y \in DOMAIN f \cup {x} |-> IF y = x THEN r ELSE f[y]]

UserInit ==
  /\ Init
  /\ user = [map |-> [t \in Thread |-> <<>>], sParent |-> <<>>,
             data |-> [name \in UserCode |-> NoRegion]]
  /\ open = [o \in TaskObj |-> <<>>]
  /\ begun = 0

-----------------------------------------------------------------------------
(* The program *)

OpenOn(t, name) ==
  \E o \in ToSet(running[t]) : \E x \in ToSet(open[o]) : x.name = name

(* The current task of t may begin a region.  Without "tasks" it does so   *)
(* only while no task it created is left.                                  *)
MayBegin(t, name) ==
  LET o == Current(t) IN
  /\ InProgram(t) /\ prof.active
  /\ Type(o) = "undeferred" => "undeferred" \in UserFeatures
  /\ sync[o] # <<>> => "groups" \in UserFeatures
  /\ children[o] # {} => "tasks" \in UserFeatures
  /\ OpenOn(t, name) => "recursive" \in UserFeatures
  /\ begun < MaxUser

(* Regions are nested and end in the task that began them.                 *)
MayEnd(t, name) ==
  LET o == Current(t) IN
  /\ InProgram(t) /\ prof.active
  /\ sync[o] # <<>> => "groups" \in UserFeatures
  /\ children[o] # {} => "tasks" \in UserFeatures
  /\ open[o] # <<>> /\ Last(open[o]).name = name

Opened(o, name) ==
  /\ open' = [open EXCEPT ![o] = Append(@, [name |-> name, above |-> prof.task[o].rData])]
  /\ begun' = begun + 1

Closed(o) == open' = [open EXCEPT ![o] = Front(@)] /\ begun' = begun

(* Tasks end and the profiler is paused outside of user regions.  Without  *)
(* "tasks", an explicit task in a region neither creates tasks nor waits   *)
(* nor leaves its thread to another task, and no task creates tasks in one. *)
Nested ==
  /\ \A o \in TaskObj : open[o] # <<>> =>
       /\ prof'.active = prof.active
       /\ prof'.task[o].Type = Type(o)
       /\ "tasks" \notin UserFeatures => children'[o] = children[o]
       /\ "tasks" \notin UserFeatures /\ Type(o) = "explicit" => sync'[o] = sync[o]
  /\ \A t \in Thread : running[t] # <<>> /\ open[Current(t)] # <<>> =>
       /\ Type(Current(t)) = "implicit" => where'[t] = where[t]
       /\ "tasks" \notin UserFeatures /\ Type(Current(t)) = "explicit" =>
            running'[t] = running[t]

-----------------------------------------------------------------------------
(* The handler *)

(* Mutants: region above goes on; r is not measured inclusively.           *)
DescendGoingOn(p, t, o, above, r) ==
  [CountRegion(CountRegion(Take(p, t), "inc", t, r, 1), "exc", t, r, 1)
     EXCEPT !.task[o].rData = r]

DescendExclusive(p, t, o, above, r) ==
  [CountRegion(CountRegion(Take(p, t), "exc", t, above, -1), "exc", t, r, 1)
     EXCEPT !.task[o].rData = r]

(* The task leaves region above for region r ...                           *)
Descend(p, t, o, above, r) ==
  LET stopped == CountRegion(Take(p, t), "exc", t, above, -1)
      started == CountRegion(CountRegion(stopped, "inc", t, r, 1), "exc", t, r, 1)
  IN  [started EXCEPT !.task[o].rData = r]

(* Mutant: the inclusive measurement of r is not stopped.                  *)
AscendExclusive(p, t, above, r) ==
  CountRegion(CountRegion(Take(p, t), "exc", t, r, -1), "exc", t, above, 1)

(* ... and returns.                                                        *)
Ascend(p, t, above, r) ==
  LET stopped == CountRegion(CountRegion(Take(p, t), "exc", t, r, -1), "inc", t, r, -1)
  IN  CountRegion(stopped, "exc", t, above, 1)

Static == "static" \in UserFeatures

(* Mutant: the entry that the lookup made in the map stays null.           *)
UserRegionBeginNull(t, name) ==
  LET o     == Current(t)
      above == prof.task[o].rData
      p     == ThreadRegionData(prof, t, name, above)
      r     == ThreadRegion(p, t, name, above)
  IN
  /\ MayBegin(t, name) /\ ~Static
  /\ Returns(t, Descend(p, t, o, above, r))
  /\ user' = [user EXCEPT !.map[t] = Put(@, name, NoRegion), !.sParent = Put(@, r, above)]
  /\ Opened(o, name)
  /\ UNCHANGED env

(* The region a begin finds: by name one that the thread has begun before, *)
(* with static data the region of the first begin, whichever thread that   *)
(* was.                                                                    *)
Seen(t, name) == IF Static THEN user.data[name] ELSE Lookup(user.map[t], name)

(* Any other region is looked up under the task's current one.             *)
UserRegionBegin(t, name) ==
  LET o     == Current(t)
      above == prof.task[o].rData
      known == Seen(t, name) # NoRegion
      p     == IF known THEN prof ELSE ThreadRegionData(prof, t, name, above)
      r     == IF known THEN Seen(t, name) ELSE ThreadRegion(p, t, name, above)
  IN
  /\ MayBegin(t, name)
  /\ Returns(t, Descend(p, t, o, above, r))
  /\ user' = IF Static THEN [user EXCEPT !.data[name] = r]
             ELSE [user EXCEPT !.map[t] = Put(@, name, r), !.sParent = Put(@, r, above)]
  /\ Opened(o, name)
  /\ UNCHANGED env

(* Mutant: the region stays the task's current one.                        *)
UserRegionEndStaying(t, name) ==
  LET r == prof.task[Current(t)].rData IN
  /\ MayEnd(t, name) /\ ~Static
  /\ Returns(t, Ascend(prof, t, Lookup(user.sParent, r), r))
  /\ Closed(Current(t))
  /\ UNCHANGED <<user, env>>

(* The region that ends and the one that is resumed: region_end_name ends  *)
(* the current region and returns to its sParentPtr; region_end ends the   *)
(* region in the static data and resumes the one that is current, which is *)
(* that very region.                                                       *)
Ending(t, name) ==
  LET current == prof.task[Current(t)].rData IN
  IF Static THEN [region |-> user.data[name], above |-> current]
  ELSE [region |-> current, above |-> Lookup(user.sParent, current)]

(* region_end_name has no effect unless a user region is current.          *)
UserRegionEnd(t, name) ==
  LET o == Current(t)
      e == Ending(t, name)
  IN
  /\ MayEnd(t, name)
  /\ IF ~Static /\ prof.regions[e.region.id][1] \notin UserCode THEN UNCHANGED <<prof, user>>
     ELSE /\ LET p == Ascend(prof, t, e.above, e.region)
             IN  Returns(t, [p EXCEPT !.task[o].rData = e.above])
          /\ user' = IF Static THEN user
                     ELSE [user EXCEPT !.sParent = Put(@, e.region, NoRegion)]
  /\ Closed(o)
  /\ UNCHANGED env

UserNext ==
  \/ Next /\ Nested /\ UNCHANGED <<user, open, begun>>
  \/ \E t \in Thread, name \in UserCode :
       \/ UserRegionBegin(t, name)
       \/ UserRegionEnd(t, name)

UserSpec == UserInit /\ [][UserNext]_userVars
-----------------------------------------------------------------------------
(* Properties *)

(* ... also when tasks are in user regions.                                *)
UserTypeOK ==
  /\ TypeOK
  /\ \A t \in Thread : \A name \in DOMAIN user.map[t] :
       name \in UserCode /\ user.map[t][name] \in Region
  /\ \A r \in DOMAIN user.sParent : user.sParent[r] \in Region \cup {NoRegion}
  /\ open \in [TaskObj -> Seq([name : UserCode, above : Region \cup {NoRegion}])]

(* The region a task measures is the innermost user region it is in, and   *)
(* none when it is in none: control_tool returns to "parent of stopped     *)
(* region" (ompt-profiler.cpp:673,758).                                    *)
RegionIsInnermost ==
  Running => \A t \in Thread : \A o \in Measured(t) :
    LET code == prof.regions[prof.task[o].rData.id][1] IN
    IF open[o] = <<>> THEN code \notin UserCode ELSE code = Last(open[o]).name

(* Inclusive time with user regions: what a task left for a user region    *)
(* goes on being measured until the task ends, whatever happens inside.    *)
InclusiveNested ==
  Running => \A r \in DOMAIN prof.inc :
    prof.inc[r] =
      Cardinality({o \in Measured(r.thread) :
                     /\ prof.task[o].rData = r
                     /\ prof.task[o].inBarrier => o \notin Charged(r.thread)})
      + Cardinality({e \in TaskObj \X (1..MaxUser) :
                       e[2] \in DOMAIN open[e[1]] /\ open[e[1]][e[2]].above = r})
=============================================================================
