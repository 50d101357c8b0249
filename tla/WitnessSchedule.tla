--------------------------- MODULE WitnessSchedule ---------------------------
(***************************************************************************)
(* Slots, the shuffled witness schedule and block production.              *)
(*                                                                         *)
(* The chain divides time into slots of block_interval seconds and gives   *)
(* each slot to one witness (chain/db_witness_schedule.cpp); a block is    *)
(* accepted only from the witness of its slot, and applying it moves the   *)
(* absolute slot number, charges the witnesses of the missed slots, may    *)
(* run a chain maintenance and may reshuffle (chain/db_block.cpp,          *)
(* db_update.cpp, db_maint.cpp).  The witness plugin of a node wakes every *)
(* second and produces a block when one of its witnesses is due            *)
(* (plugins/witness/witness.cpp).                                          *)
(*                                                                         *)
(* Times are whole seconds: the plugin rounds its clock to the second      *)
(* before it uses it, so clock stands for that rounded time.  A block only *)
(* carries its time and its witness.  The shuffle is a pseudo random       *)
(* permutation seeded by the head block's time: any permutation here.      *)
(***************************************************************************)
EXTENDS Integers, FiniteSets, FiniteSetsExt, Sequences, SequencesExt

CONSTANTS
  Witness,           \* the witness objects
  Elections,         \* the sets of witnesses an election may make active
  Params,            \* the chain parameters a maintenance may put in force
  GenesisTime,       \* the time of the genesis state
  SlotBits,          \* width of recent_slots_filled (128 in the code)
  Mine,              \* the witnesses this node is configured with
  WithKey,           \* those it has the current signing key of
  Required,          \* --required-participation, in percent
  StaleProduction,   \* --enable-stale-production
  P2P,               \* the node has a network object
  Prompt,            \* the production loop wakes in every second
  MaxClock           \* bound on time

\* What the constants are assumed to be.
ScheduleAssumption ==
  /\ Elections \subseteq (SUBSET Witness) \ {{}}
  /\ Elections # {}
  /\ \A p \in Params : /\ p.interval \in Nat \ {0}
                       /\ p.skip \in Nat /\ p.maint \in Nat
                       /\ p.maint > p.interval
                       /\ p.maint % p.interval = 0
  /\ Mine \subseteq Witness /\ WithKey \subseteq Mine
  /\ IsFiniteSet(Witness) /\ StaleProduction \in BOOLEAN
  /\ {GenesisTime, MaxClock} \subseteq Nat /\ SlotBits \in Nat \ {0}

\* The interval stays what it is, and genesis is on a slot.
Steady ==
  \A p, q \in Params : p.interval = q.interval /\ GenesisTime % p.interval = 0

\* The node has all witnesses and produces whatever the others do.
SoleProducer ==
  /\ Steady
  /\ WithKey = Witness /\ Required = 0 /\ StaleProduction = TRUE /\ P2P = TRUE

VARIABLES
  headNum, headTime,  \* number and time of the head block
  flag,               \* maintenance_flag: the head block is a maintenance block
  aslot,              \* current_aslot
  nextMaint,          \* next_maintenance_time
  param,              \* block_interval, maintenance_skip_slots, maintenance_interval
  active,             \* active_witnesses
  shuffled,           \* current_shuffled_witnesses
  filled,             \* recent_slots_filled, the newest bit first
  total_missed,       \* per witness
  clock,              \* the node's time, rounded
  running,            \* the production loop is scheduled
  enabled,            \* _production_enabled
  woke,               \* the loop has run in this second
  result,             \* what its last run returned
  skipped,            \* history: slots left out after maintenance blocks
  slots               \* history: the last SlotBits slots, the newest first

chain == <<headNum, headTime, flag, aslot, nextMaint, param, active, shuffled,
           filled, total_missed, skipped, slots>>
plugin == <<running, enabled, woke, result>>
vars == <<chain, clock, plugin>>

-----------------------------------------------------------------------------
(* chain/db_witness_schedule.cpp                                           *)

\* get_scheduled_witness( slot_num )
get_scheduled_witness(slot_num) ==
  shuffled[((aslot + slot_num) % Len(shuffled)) + 1]

\* mutant: the slots after a maintenance block are not skipped for every slot
get_slot_time_skip_first(slot_num) ==
  IF slot_num = 0 THEN 0
  ELSE IF headNum = 0 THEN headTime + slot_num * param.interval
  ELSE (headTime \div param.interval) * param.interval
       + (slot_num + (IF flag /\ slot_num = 1 THEN param.skip ELSE 0)) * param.interval

\* get_slot_time( slot_num ): slots count from the head block, on multiples of
\* the interval, except that before the first block they count from genesis
get_slot_time(slot_num) ==
  IF slot_num = 0 THEN 0
  ELSE IF headNum = 0 THEN headTime + slot_num * param.interval
  ELSE (headTime \div param.interval) * param.interval
       + (slot_num + (IF flag THEN param.skip ELSE 0)) * param.interval

\* get_slot_at_time( when )
get_slot_at_time(when) ==
  LET first == get_slot_time(1)
  IN  IF when < first THEN 0 ELSE (when - first) \div param.interval + 1

\* mutant: missed slots are charged however many there are
Charged_all(missed) ==
  [w \in Witness |-> total_missed[w]
     + Cardinality({i \in 1..missed : get_scheduled_witness(i) = w})]

\* update_witness_missed_blocks: the witnesses of the missed slots, unless
\* there was no block for a whole round
Charged(missed) ==
  IF missed < Len(shuffled)
  THEN [w \in Witness |-> total_missed[w]
          + Cardinality({i \in 1..missed : get_scheduled_witness(i) = w})]
  ELSE total_missed

\* witness_participation_rate, in percent
witness_participation_rate ==
  (100 * Cardinality({i \in 1..SlotBits : filled[i]})) \div SlotBits

\* The bits after shifting in one slot that was filled, then `missed` that
\* were not.  A shift by the width of the type or more is undefined: the build
\* gives no bits at all, or shifts by the remainder.
ShiftedSlots(missed) ==
  LET bits(n) == SubSeq([i \in 1..n |-> FALSE] \o <<TRUE>> \o filled, 1, SlotBits)
  IN  IF missed < SlotBits THEN {bits(missed)}
      ELSE {[i \in 1..SlotBits |-> FALSE], bits(missed % SlotBits)}

\* mutant: the old schedule is not cleared
Schedules_append(num, act, old) ==
  IF num % Cardinality(act) = 0 THEN {old \o s : s \in SetToSeqs(act)} ELSE {old}

\* update_witness_schedule: the orders the schedule may have after block num
Schedules(num, act, old) ==
  IF num % Cardinality(act) = 0 THEN SetToSeqs(act) ELSE {old}

-----------------------------------------------------------------------------
(* Applying a block: chain/db_block.cpp, db_update.cpp, db_maint.cpp       *)

\* mutant: the next maintenance is one interval after the last one
NextMaintenance_step(num, time, p) == nextMaint + p.maint

\* next_maintenance_time after a maintenance block, under the new parameters
NextMaintenance(num, time, p) ==
  IF num = 1 THEN (time \div p.maint + 1) * p.maint
  ELSE nextMaint + ((time - nextMaint) \div p.maint + 1) * p.maint

\* validate_block_header
ValidHeader(time, w) ==
  /\ headTime < time
  /\ get_slot_at_time(time) > 0
  /\ w = get_scheduled_witness(get_slot_at_time(time))

\* mutant: the absolute slot counts the blocks only
apply_block_blocks(time, w) ==
  LET missed == get_slot_at_time(time) - 1
      maint_needed == nextMaint <= time
  IN
  /\ ValidHeader(time, w)
  /\ total_missed' = Charged(missed)
  /\ headNum' = headNum + 1
  /\ headTime' = time
  /\ filled' \in ShiftedSlots(missed)
  /\ aslot' = aslot + 1
  /\ \E p \in IF maint_needed THEN Params ELSE {param},
        act \in IF maint_needed THEN Elections ELSE {active} :
       /\ param' = p
       /\ active' = act
       /\ nextMaint' = IF maint_needed THEN NextMaintenance(headNum + 1, time, p)
                                       ELSE nextMaint
       /\ shuffled' \in Schedules(headNum + 1, act, shuffled)
  /\ flag' = maint_needed
  /\ skipped' = skipped + (IF flag THEN param.skip ELSE 0)
  /\ slots' = SubSeq(<<TRUE>> \o [i \in 1..missed |-> FALSE] \o slots, 1, SlotBits)

\* _apply_block, as far as it concerns slots.  The missed slots are counted
\* before the head moves; a maintenance puts new parameters and new witnesses
\* in force, the maintenance flag follows, and the schedule is made last.
apply_block(time, w) ==
  LET missed == get_slot_at_time(time) - 1
      maint_needed == nextMaint <= time
  IN
  /\ ValidHeader(time, w)
  /\ total_missed' = Charged(missed)
  /\ headNum' = headNum + 1
  /\ headTime' = time
  /\ filled' \in ShiftedSlots(missed)
  /\ aslot' = aslot + missed + 1
  /\ \E p \in IF maint_needed THEN Params ELSE {param},
        act \in IF maint_needed THEN Elections ELSE {active} :
       /\ param' = p
       /\ active' = act
       /\ nextMaint' = IF maint_needed THEN NextMaintenance(headNum + 1, time, p)
                                       ELSE nextMaint
       /\ shuffled' \in Schedules(headNum + 1, act, shuffled)
  /\ flag' = maint_needed
  /\ skipped' = skipped + (IF flag THEN param.skip ELSE 0)
  /\ slots' = SubSeq(<<TRUE>> \o [i \in 1..missed |-> FALSE] \o slots, 1, SlotBits)

\* A block another node produced arrives (application_impl::handle_block): it
\* may be late, and up to two and a half seconds early
handle_block ==
  /\ \E time \in (headTime + 1)..(clock + 2), w \in Witness \ WithKey :
       apply_block(time, w)
  /\ UNCHANGED <<clock, plugin>>

-----------------------------------------------------------------------------
(* The production loop: plugins/witness/witness.cpp                        *)

\* mutant: a node does not produce in the first second of a slot
Condition_strict ==
  LET slot == get_slot_at_time(clock)
      scheduled == get_scheduled_witness(slot)
  IN  IF slot = 0 \/ clock = headTime + param.interval THEN "not_time_yet"
      ELSE IF scheduled \notin Mine THEN "not_my_turn"
      ELSE IF scheduled \notin WithKey THEN "no_private_key"
      ELSE IF witness_participation_rate < Required THEN "low_participation"
      ELSE IF clock - get_slot_time(slot) > 2 THEN "lag"
      ELSE IF ~P2P THEN "no_network"
      ELSE "produced"

\* The early returns of maybe_produce_block, in order, once production is
\* enabled
Condition ==
  LET slot == get_slot_at_time(clock)
      scheduled == get_scheduled_witness(slot)
  IN  IF slot = 0 THEN "not_time_yet"
      ELSE IF scheduled \notin Mine THEN "not_my_turn"
      ELSE IF scheduled \notin WithKey THEN "no_private_key"
      ELSE IF witness_participation_rate < Required THEN "low_participation"
      ELSE IF clock - get_slot_time(slot) > 2 THEN "lag"
      ELSE IF ~P2P THEN "no_network"
      ELSE "produced"

\* "If the next block production opportunity is in the present or future,
\* we're synced"; once synced, the node stays so
synced == enabled \/ get_slot_time(1) >= clock

\* block_production_loop with maybe_produce_block; the loop is scheduled again
\* unless there is no network
block_production_loop ==
  /\ running /\ ~woke
  /\ woke' = TRUE
  /\ enabled' = synced
  /\ result' = IF synced THEN Condition ELSE "not_synced"
  /\ running' = (result' # "no_network")
  /\ IF result' = "produced"
     THEN LET slot == get_slot_at_time(clock)
          IN  apply_block(get_slot_time(slot), get_scheduled_witness(slot))
     ELSE UNCHANGED chain
  /\ UNCHANGED clock

\* stop_block_production
stop_block_production ==
  /\ running
  /\ running' = FALSE
  /\ result' = "shutdown"
  /\ UNCHANGED <<chain, clock, enabled, woke>>

\* plugin_startup after a restart of the node
plugin_startup ==
  /\ result = "shutdown"
  /\ running' = TRUE
  /\ enabled' = StaleProduction
  /\ woke' = FALSE
  /\ result' = "none"
  /\ UNCHANGED <<chain, clock>>

\* Time passes.  A loop that is not prompt may sleep through a second.
Tick ==
  /\ clock < MaxClock
  /\ Prompt /\ running => woke
  /\ clock' = clock + 1
  /\ woke' = FALSE
  /\ UNCHANGED <<chain, running, enabled, result>>

\* The genesis state: the first block will be a maintenance block
Init ==
  /\ headNum = 0 /\ headTime = GenesisTime /\ flag = FALSE /\ aslot = 0
  /\ nextMaint = 0
  /\ param \in Params
  /\ active \in Elections
  /\ shuffled = SetToSeq(active)
  /\ filled = [i \in 1..SlotBits |-> TRUE]
  /\ total_missed = [w \in Witness |-> 0]
  /\ clock = GenesisTime
  /\ running = TRUE /\ enabled = StaleProduction /\ woke = FALSE /\ result = "none"
  /\ skipped = 0
  /\ slots = [i \in 1..SlotBits |-> TRUE]

Next ==
  \/ handle_block
  \/ block_production_loop
  \/ stop_block_production
  \/ plugin_startup
  \/ Tick

Spec == Init /\ [][Next]_vars

-----------------------------------------------------------------------------
(* Properties                                                              *)

Results == {"none", "not_synced", "not_time_yet", "not_my_turn",
            "no_private_key", "low_participation", "lag", "no_network",
            "produced", "shutdown"}

\* The types of the chain's and of the plugin's state: in particular no witness
\* stands twice in the schedule (update_witness_schedule).
TypeOK ==
  /\ headNum \in Nat /\ headTime \in Nat /\ aslot \in Nat /\ nextMaint \in Nat
  /\ flag \in BOOLEAN /\ param \in Params /\ active \in Elections
  /\ IsInjective(shuffled) /\ ToSet(shuffled) \in Elections
  /\ filled \in [1..SlotBits -> BOOLEAN]
  /\ total_missed \in [Witness -> Nat]
  /\ clock \in Nat /\ running \in BOOLEAN /\ enabled \in BOOLEAN
  /\ woke \in BOOLEAN /\ result \in Results
  /\ skipped \in Nat

\* get_slot_time and get_slot_at_time are inverse to each other at every head:
\* at genesis, after a block that is not on a slot boundary, after a maintenance
\* block and under parameters it changed.  get_slot_at_time is "the greatest
\* value N such that get_slot_time( N ) <= when", and slots lie after the head
\* block (the assert of maybe_produce_block).
SlotInverse ==
  \A when \in headTime..(MaxClock + 2) :
    LET n == get_slot_at_time(when)
    IN  /\ n > 0 => when > headTime /\ get_slot_time(n) <= when
        /\ when < get_slot_time(n + 1)
        /\ n > 0 => get_slot_time(n) > headTime
                    /\ get_slot_at_time(get_slot_time(n)) = n

\* Every block leaves the next maintenance ahead of it, and at most one
\* maintenance interval away, although maintenance blocks come late and change
\* the interval (perform_chain_maintenance).
NextMaintAhead ==
  headNum > 0 => headTime < nextMaint /\ nextMaint <= headTime + param.maint

\* The absolute slot number says what time it is: slots used, slots missed and
\* slots skipped after maintenance add up to the time since genesis
\* (update_global_dynamic_data), while the interval does not change.
AslotTime ==
  headTime \div param.interval
    = GenesisTime \div param.interval + aslot + skipped

\* A block charges a witness with at most one missed block, and never the
\* witness that produced it, so nobody loses standing for a stall of the whole
\* chain (update_witness_missed_blocks).
ChargeStep ==
  \A w \in Witness : total_missed'[w] <= total_missed[w] + 1
       /\ (headNum' > headNum /\ w = get_scheduled_witness(get_slot_at_time(headTime'))
           => total_missed'[w] = total_missed[w])

\* Every step is of that kind.
ChargedOnce == [][ChargeStep]_vars

\* A node that has all witnesses, wakes every second and needs no
\* participation never lets a slot pass: when the loop has run, the next slot
\* is in the future (or the node came back too late for this one), across
\* maintenance, elections, reshuffles and restarts (block_production_loop).
NoStall ==
  running /\ woke => clock < get_slot_time(1) \/ result = "lag"

\* The participation rate is that of the last 128 slots (database.hpp:
\* witness_participation_rate).
\* It does not hold: see "Other disagreements" in the README.
RateExact ==
  Cardinality({i \in 1..SlotBits : filled[i]})
    = Cardinality({i \in 1..SlotBits : slots[i]})

\* Times and slots agree, maintenance stays ahead and nobody is charged unduly.
SlotsAgree == [](SlotInverse /\ NextMaintAhead) /\ ChargedOnce
=============================================================================
