----------------------------- MODULE Scheduler -----------------------------
(***************************************************************************)
(* The profiles of the client (limits with a name) and the times of the    *)
(* day at which they are to be active: Cprofiles, Cscheduler, the dialogs  *)
(* that edit them and the functions of Cserver that keep and run them.     *)
(* A profile is one value; both lists have numbers for keys.               *)
(***************************************************************************)
EXTENDS Integers, FiniteSets

CONSTANTS
  Settings,          (* what a profile may say                       *)
  Hours, Minutes,    (* bound: the times of the day                  *)
  MaxEntries         (* bound: entries of a list                     *)

ASSUME SchedulerAssumption == Hours \subseteq 0..23 /\ Minutes \subseteq 0..59

VARIABLES
  profiles,   (* m_profiles, and what the file has of it             *)
  schedule,   (* m_scheduler, likewise                               *)
  limits,     (* the settings in force; NoSettings: those of the configuration *)
  last,       (* when run_scheduler ran last; Never: not yet         *)
  now,        (* the time of the day                                 *)
  broken      (* a name was read that is not there: assert(get_size()), xif_value.h:80 *)

scheduler == <<profiles, schedule, limits, last, now, broken>>

Time       == [h : Hours, m : Minutes]
Never      == [h |-> -1, m |-> -1]
NoSettings == "configuration"
NoProfile  == -1

Those(f, S) == [i \in DOMAIN f \cap S |-> f[i]]
WithNext(f, v) ==
  LET n == IF DOMAIN f = {} THEN 0
           ELSE 1 + CHOOSE i \in DOMAIN f : \A j \in DOMAIN f : j <= i
  IN [i \in DOMAIN f \cup {n} |-> IF i = n THEN v ELSE f[i]]

-----------------------------------------------------------------------------
(* load() takes the keys 0, 1, ... as many as there are, whatever the keys *)
(* are.  A schedule gets an entry of zeros for one that is not there; the  *)
(* name of a profile that is not there cannot be read.                     *)

Loadable(f) == 0..(Cardinality(DOMAIN f) - 1)
Lacks(f)    == ~(Loadable(f) \subseteq DOMAIN f)
Loaded(f)   == Those(f, Loadable(f))
LoadedTimes(f) ==
  [i \in Loadable(f) |-> IF i \in DOMAIN f THEN f[i] ELSE [time |-> 0, profile |-> 0]]

\* Mutant: the key of an entry is taken for that of its profile.
CleanedByKey(s, p) == Those(s, DOMAIN p)

\* clean_scheduler
Cleaned(s, p) == Those(s, {i \in DOMAIN s : s[i].profile \in DOMAIN p})

\* The time of a schedule's entry, and hms2i of the clock.
Entered(t) == 60 * (60 * t.h + t.m)
Hms2i(t)   == 60 * (t.h + 60 * t.m)

\* find_active_profile: the first of the latest entries before time; if there is none,
\* of all.
Latest(S) == IF S = {} THEN NoProfile
             ELSE schedule[CHOOSE i \in S : \A j \in S :
                    \/ schedule[i].time > schedule[j].time
                    \/ schedule[i].time = schedule[j].time /\ i <= j].profile
Active(time) ==
  LET on == {i \in DOMAIN schedule : schedule[i].time > 0}
      passed == {i \in on : schedule[i].time < time}
  IN IF passed = {} THEN Latest(on) ELSE Latest(passed)

-----------------------------------------------------------------------------
SchedulerInit ==
  /\ profiles = <<>> /\ schedule = <<>> /\ limits = NoSettings
  /\ last = Never /\ now \in Time /\ broken = FALSE

TimePasses ==
  /\ now' \in Time \ {now}
  /\ UNCHANGED <<profiles, schedule, limits, last, broken>>

OldProfile == IF last = Never THEN NoProfile ELSE Active(Hms2i(last))
NewProfile == Active(Hms2i(now))

\* The new profile is loaded when it differs, whether there is one or not.
RunScheduler ==
  /\ now # last /\ last' = now
  /\ IF NewProfile = OldProfile THEN UNCHANGED limits ELSE limits' = profiles[NewProfile]
  /\ UNCHANGED <<profiles, schedule, now, broken>>

\* The dialog gives set_profiles the entries without those deleted, and with new ones.
SetProfiles(entries) ==
  /\ broken' = Lacks(entries)
  /\ profiles' = Loaded(entries)
  /\ schedule' = Cleaned(schedule, profiles')
  /\ UNCHANGED <<limits, last, now>>

\* load_profile, of the profile selected in the dialog.
Activate(i) ==
  /\ limits' = profiles[i]
  /\ UNCHANGED <<profiles, schedule, last, now, broken>>

\* set_scheduler
SetScheduler(entries) ==
  /\ schedule' = Cleaned(LoadedTimes(entries), profiles)
  /\ UNCHANGED <<profiles, limits, last, now, broken>>

\* The client starts again from the files.
Restart ==
  /\ broken' = Lacks(profiles)
  /\ profiles' = Loaded(profiles)
  /\ schedule' = Cleaned(LoadedTimes(schedule), profiles')
  /\ limits' = NoSettings /\ last' = Never
  /\ UNCHANGED now

EditedProfiles ==
  LET less == {Those(profiles, S) : S \in SUBSET DOMAIN profiles}
  IN less \cup {WithNext(f, v) : f \in {g \in less : Cardinality(DOMAIN g) < MaxEntries},
                                 v \in Settings}

\* The dialog has loaded what it shows.
EditedSchedules ==
  LET shown == LoadedTimes(schedule)
      less == {Those(shown, S) : S \in SUBSET DOMAIN shown}
      entry == {[time |-> Entered(t), profile |-> i] : t \in Time, i \in DOMAIN profiles}
  IN less \cup {WithNext(f, e) : f \in {g \in less : Cardinality(DOMAIN g) < MaxEntries},
                                 e \in entry}

SchedulerNext ==
  /\ ~broken
  /\ \/ TimePasses \/ RunScheduler \/ Restart
     \/ \E f \in EditedProfiles : SetProfiles(f)
     \/ \E f \in EditedSchedules : SetScheduler(f)
     \/ \E i \in DOMAIN profiles : Activate(i)

SchedulerSpec == SchedulerInit /\ [][SchedulerNext]_scheduler

-----------------------------------------------------------------------------
(* Properties.                                                             *)

\* run_scheduler looks up the profile it switches to without asking whether it is there or
\* whether any is (server.cpp:731-732): it is, however both lists were edited, cleaned, saved
\* and loaded.
ProfileIsFound == NewProfile # OldProfile => NewProfile \in DOMAIN profiles
=============================================================================
