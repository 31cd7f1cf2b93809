# TLA+ models of the rcssserver player agent

This directory holds TLA+ models of the parts of rcssserver (the RoboCup
soccer simulator server) whose sources are in `src/src/`:

- `player.cpp` is the server-side agent of one connected player.
- `playerparam.cpp` is the registry of heterogeneous-player parameters.
- `serverparam.h` is the server parameter registry.
- `serializerplayerstdv13.cpp` and `serializercoachstdv8.cpp` are two of the
  versioned serializers.
- `coach.h` declares the coach classes.

The models were written from those sources. Where the code they call lies
outside `src/src/`, they follow `spec.md`, and PROJECT.json marks those
definitions `spec_modelled`.

## The system

A `Player` object lives inside the `Stadium`. It receives text commands from
its client through the parser and the transport, neither of which is in the
sources. Its handlers change the player's per-cycle state.

- **Primary commands.** `dash`, `turn`, `kick`, `catch`, `tackle` and `move`
  are guarded by `M_command_done`. At most one of them takes effect per
  cycle. A faulted or refused kick, catch or move leaves the guard unset.
- **Neck turns.** `turn_neck` has its own guard, `M_turn_neck_done`.
- **Tackle lock.** A tackle sets `M_tackle_cycles`, and the cycle boundary
  only releases `M_command_done` once that counter reaches zero.
- **Goalie catch.** A catch that passes the catch-area test and the
  `catch_probability` draw sets the catch ban (`M_goalie_catch_ban`). A
  successful catch makes the goalie the stadium's ball catcher and restarts
  the post-catch move counter.
- **Connection lifecycle.** `init` runs on every (re)connection and
  `disable` on every disconnection. `bye` and `discard` both go through
  `disable`, and `disable` releases the ball catcher.
- **Cycle boundary.** The stadium's step calls `updateCapacity`, which
  lowers the catch ban and refills hearing capacity. It then calls
  `resetCommandFlags` and `resetState`, which drops the transient markers.
- **Observers.** The serializers show other players' `M_state` as the
  markers ` t` (tackling) and ` k` (kicked).

The other parts:

- **Resources.** `dash` spends stamina, and `updateStamina` regenerates it
  once a cycle, lowering recovery and moving effort between the player
  type's bounds. `substitute` and `recoverAll` reset them. Hearing capacity
  is refilled by `updateCapacity` and spent when the audio code delivers a
  message in full.
- **Perception settings.** `change_view` (two overloads) and `synch_see`
  set the view width, quality, visible angle and visual period;
  `attentionto` picks a player of a team named by side or by name;
  `ear` resolves a team the same way and hands the side and the
  partial/complete flags to `setEar`.
- **Orientation.** `turn` and `turn_neck` set pending angles, and the
  cycle boundary (`updateAngle`, `turnImpl`) commits them. `init` and
  `place(pos, angle, ...)` write the committed body angle directly.
- **Actuator noise.** `setPlayerType` (from the constructor and
  `substitute`) sets `M_kick_rand` to the type's kick noise, times the
  team's factor when `team_actuator_noise` is on. `init` computes the
  turn noise `M_randp` afresh on every connection but multiplies
  `M_kick_rand` by the factor in place.
- **Handshake.** `init` stores the client's version and calls
  `setSenders`, which installs five senders one by one and fails at the
  first missing creator; `init` then disables the slot.
- **Parameter registry.** `PlayerParam` holds the heterogeneous-player
  parameters. `convertToStruct` encodes them for monitors and clients:
  integers as network-order 16- or 32-bit words, reals as
  `roundint(65536 * value)`.
- **Server parameters.** `setCTLRadius`, `setKickMargin`, `setBallSize`
  and `setPlayerSize` keep `kickable_area` and `control_radius_width`
  up to date by subtracting the old part and adding the new one.
  `setHalfTime` and `setExtraHalfTime` store the seconds and convert them
  to cycles with `getHalfTimeScaler`.
- **Synchronized mode.** A client's `done` sets `M_done_received`. The
  coach has the same flag. The stadium advances the cycle once every
  connected agent is done, or on a timeout. `resetCommandFlags` clears
  the flags at the boundary; `init` and `disable` leave them as they are.

## Modules

| Module | Models | State | Actions |
|---|---|---|---|
| `SerializerMarkers` | the marker logic of the four `SerializerPlayerStdv13::serializeVisualPlayer` overloads, `serializeFSPlayerState` and the two `SerializerCoachStdv8::serializeVisualPlayer` overloads | none; operators over an `M_state` flag set | none; `Shown13` and `ShownCoach8` collect the marker of every serialization |
| `PlayerCommand` | the per-cycle command state machine of `player.cpp` | `M_state` as a set of flag names, `M_enable`, `M_goalie`, `M_command_done`, `M_turn_neck_done`, `M_done_received`, `M_tackle_cycles`, `M_goalie_catch_ban`, `M_goalie_moves_since_catch`, the stadium's play mode and ball catcher | one action per handler: `dash`, `turn`, `turn_neck`, `kick`, `goalieCatch`, `tackle`, `move`, `bye`, `done`, `init`, `disconnect` (`disable`) and `discard`; the referee's `changePlayMode`; `StadiumStep` |
| `PlayerResource` | stamina, recovery, effort and hearing of one player | `M_player_type`, `M_stamina`, `M_recovery`, `M_effort`, the two hearing capacities, `M_command_done` | `dash` (with `NormalizeDashPower`), `hear` (`canHearFullFrom` then `decrementHearCapacity`), `substitute`, `recoverAll`, `CycleStep` (`updateStamina`, `updateCapacity`, `resetCommandFlags`) |
| `PlayerPerception` | view mode, synch see and attention of three players | `M_view_width`, `M_highquality`, `M_visible_angle`, `M_vis_send`, `M_synch_see`, the attention target, each team's `enabled` | `change_view` (with quality), `change_view_width`, `synch_see`, `attentionto`, `setTeamEnabled`; `ear` as the operator `EarCall`, the `setEar` call it makes |
| `PlayerOrientation` | body and neck angles of one player | pending and committed body and neck angles, `M_command_done`, `M_turn_neck_done` | `turn`, `turn_neck`, `init`, `place`, `CycleStep` (`updateAngle`) |
| `PlayerSenders` | `Player::init`, `setSenders` and `disable` for two slots | `M_enable`, `M_version`, the sender each of the five observers holds | `init`, `disable` |
| `ServerParamDerived` | the derived-length setters and half-time setters of `serverparam.h` | the four lengths, `M_kickable_area`, `M_control_radius_width`, the half times in seconds and in cycles | `setCTLRadius`, `setKickMargin`, `setBallSize`, `setPlayerSize`, `setHalfTime`, `setExtraHalfTime` |
| `SynchBarrier` | synchronized mode: the done flags of `player.cpp` and `coach.h` and the stadium's barrier | `M_enable` and `M_done_received` per slot, the coach's `M_done_received`, the cycle parity | `init`, `done`, `disable`, `coachDone`, `Advance`, `Timeout` |
| `PlayerNoise` | the actuator noise of one slot | `M_player_type_id`, `M_kick_rand`, `M_randp`, `M_enable` | `init` (with `setSenders` succeeding or not), `disable`, `substitute` (`setPlayerType`) |
| `ParamEncoding` | `PlayerParam`'s defaults, configuration writes and `convertToStruct` | the parameters, the last encoded struct as byte sequences | `configure`, `convertToStruct` |

Reals are modelled as integers. Stamina is whole stamina units, recovery
is a multiple of `1/RecoveryOne`, and a player parameter is a whole number
of ten-thousandths (every default in the code is one). `roundint` is then
computed exactly. `65536 * n / 10000` never ends in exactly `.5`, so the
double's representation error cannot move a result across a rounding
boundary. An angle is a step on a ring of `AngleSteps` directions.

`StadiumStep` is the stadium's cycle boundary. It applies the ban part of
`updateCapacity`, then `resetCommandFlags`, then `resetState` to every
player in one atomic step. The stadium code is not in the sources; this
order is the one `spec.md` implies for the end of a cycle (§3 and §4.1);
it does not state it as a sequence.

A handler's geometry and random draws are inputs chosen by `\E`:

- `kick` takes whether the ball is kickable.
- `goalieCatch` takes whether the ball is in the catch area, whether
  `drand(0,1) < catch_prob` held, whether the ball is in the reliable area,
  and how the `fail_prob` bernoulli draw came out.
- `tackle` takes the zone (no tackle distance, a failure probability >= 1,
  or near) and whether the tackle hit.

History variables record what the properties talk about:

- the primary commands that took effect this cycle;
- the catch draws taken this cycle;
- whether `kickTaken()` ran;
- the cycle boundaries since the last tackle, and whether it set `TACKLE`;
- the cycle boundaries since the catch ban was last set.

The history variables are capped. Their caps are `TackleCycles + 1`,
`CatchBanCycle + 1`, and 2 draws per cycle.

## Runs

| Run | Config | Expect | Shows |
|---|---|---|---|
| `player_command` | `MCPlayerCommand.cfg` | pass | The nine properties hold over every interleaving of one player's commands, reconnections and referee changes. The properties are `TypeOK`, `OnePrimaryPerCycle`, `TackleLock`, `TackleLockEnds`, `TackleMarkerSpan` (over all seven serializations that show a player), `CatchBanSpacing`, `BallCatcherIsConnectedGoalie`, `GoalieMoveLimit` and `DiscardSticks` (a discarded slot stays disabled and marked `DISCARD` until `init`, because `discard` toggles the bit after `disable` reset `M_state`). |
| `catch_redraw` | `MCPlayerCommand_OneCatchDrawPerCycle.cfg` | violation | After a failed `catch_probability` draw the goalie may send `catch` again in the same cycle and get a second draw. |
| `kick_marker` | `MCPlayerCommand_KickMarkerMeansKick.cfg` | violation | A kick refused in `BeforeKickOff` still sets `KICK`, so the v13 serializer shows ` k`. |
| `player_resource` | `MCPlayerResource.cfg` | pass | Under any dashes (forward, backward, beyond the stamina left), hearing, substitutions (to a known or an unknown type), `recoverAll` and cycle boundaries: stamina stays in `[0, staminaMax]` (`StaminaBound`); effort stays within the bounds of the *current* type (`EffortWithinType`); recovery stays in `[recover_min, 1]` (`RecoveryFloor`); and hearing capacity stays in `[0, hear_max]` (`HearCapacityBounds`). |
| `player_perception` | `MCPlayerPerception.cfg` | pass | In any order of `change_view`, `synch_see` and `attentionto` from three players of two teams, each player's visible angle and visual period match its width, see mode and quality (`ViewConsistent`, and `TypeOK`, which keeps the period at least 1). For every input, `ear` hears the same side `attentionto` would pick, neutral only for an empty team name, and at least one of partial and complete (`EarSideAsAttention`). |
| `player_orientation` | `MCPlayerOrientation.cfg` | pass | Through turns, oversized neck moments, reconnections, placements and cycle boundaries, each cycle boundary moves the committed neck angle by at most the neck moment bounds and leaves it in the neck range (`NeckStepBounded`). The range of +-2 is narrower than the moments of -1..3 can span, so both of `turn_neck`'s bounds are needed: its mutants drop one or the other. |
| `placed_angle` | `MCPlayerOrientation_PlacedAngleKept.cfg` | violation | The angle `init` or `place(pos, angle, ...)` writes into `M_angle_body_committed` is overwritten at the next boundary by the stale pending `M_angle_body` (`player.cpp:241`, `:1704`). |
| `player_senders` | `MCPlayerSenders.cfg` | pass | An enabled slot's five senders all speak its version (`SendersMatchVersion`), even after a reconnection for which `setSenders` stopped part-way. |
| `param_negative_rounding` | `MCParamEncoding_ScaledRoundsToNearest.cfg` | violation | With the default parameters alone, a negative real parameter is sent one unit of 1/65536 above 65536 times its value (`ScaledRoundsToNearest`): `roundint` adds 0.5 and its cast truncates toward zero, so `player_size_delta_factor = -100` goes out as `-6553599` (`playerparam.cpp:77`). |
| `kick_rand_compounds` | `MCPlayerNoise_KickRandScaledOnce.cfg` | violation | With `team_actuator_noise` on, `init` multiplies `M_kick_rand` by the team factor that `setPlayerType` already applied. A connected player's kick noise is the type's `kick_rand` times the factor squared, and a further power after each reconnection, until a substitution (`player.cpp:248`). |
| `server_param_derived` | `MCServerParamDerived.cfg` | pass | In any order of the length setters, `kickable_area` and `control_radius_width` stay equal to their defining sums (`DerivedLengthsConsistent`). A half time in cycles lasts its configured seconds to within half a cycle (`HalfTimesMatchSeconds`). |
| `stale_done` | `MCSynchBarrier_BarrierWaitsForConnected.cfg` | violation | A client sends `done` and disconnects, and a new client takes the slot in the same cycle. `init` does not clear `M_done_received`, so the barrier advances without the new client's `done`. |

Every property of a passing run has a mutant in `PROJECT.json`. A mutant
is a plausible fault of the code it models, such as a dropped clamp, a
missing reset, a missing `return false` or a dropped bound. Under the
run's configuration, TLC finds the property violated by each mutant.

The `player_command` bounds:

- One player slot. The properties are per player. The only cross-player
  state is the ball catcher, and one goalie slot reaches every case of it.
- `TackleCycles = CatchBanCycle = GoalieMaxMoves = 2`. A value of 2 tells
  "the lock or ban lasts one more cycle" apart from an off-by-one, which a
  value of 1 cannot.
- Five play modes: `PlayOn`, `BeforeKickOff` (a kick ban and free moves),
  `CatchFault_Left` (a kick ban but not a tackle ban), `FreeKick_Left` (a
  goalie move after a catch) and a penalty mode (a catch outside `PlayOn`).
- Protocol versions 13 (has a serializer) and 20 (none, so `init` disables
  the slot).

The other runs' bounds:

- **`player_resource`**
  - Two player types with different effort bounds and extra stamina, plus
    an unknown type id.
  - `StaminaMax = 8`.
  - Dash powers sent as -2 (a backward dash costs double), 3 and 7, with
    `max_power = 6` and `min_power = -5`, so `NormalizeDashPower` bounds
    the 7 to 6. Two such dashes exceed the stamina left, which reaches the
    clamp.
  - The thresholds are placed so that recovery decrement, effort
    decrement and effort increment all happen.
  - `HearMax = 3` with a decay of 2, so a second message in a cycle is
    refused.
- **`player_perception`**
  - Two left players and one right player, so that a player can name
    itself through `OUR`, `LEFT_SIDE` or its team name.
  - `defangle = 6` steps, so halving and doubling stay exact.
- **`player_orientation`**
  - Eight directions and turns of -1, 0, 1 and 3 steps.
  - A neck range of +-2 and neck moment bounds of -1 and 3, with neck
    moments of -5, -1, 2 and 5 sent, which go beyond both bounds.
- **`player_senders`**
  - Two slots and four versions: one without a serializer, two whose
    lookups stop after three or four senders, and one with every sender.
- **`param_negative_rounding`**
  - Eight configuration writes taken from the older defaults in the code's
    comments, a fixed seed and the multiple-default-type flag.
  - The negative defaults of the code are exercised as they are; the
    violation needs no write.

- **`server_param_derived`**
  - Each length may be set to any of the four defaults (300, 85, 700 and
    2000 thousandths). Every setter therefore runs from every reachable
    combination.
  - Half times of 0, 1 and 300 seconds, with a 150 ms step and a
    slow-down factor of 2 (a raw step of 75 ms, which does not divide
    1000). The integer scaler is then off by whole cycles.
- **`kick_rand_compounds`**
  - One slot, two types with different `kick_rand`, a kick factor of 2
    and a turn-noise factor of 3; two `init` calls, each with
    `setSenders` succeeding or failing. The violation needs one `init`.
- **`stale_done`**
  - Two slots and a coach. Three `init` calls (`MaxReconnects`) let one
    slot leave and come back while the other is connected. The violation
    needs only one reconnection.

## Fairness

The only fairness assumed is weak fairness of the cycle boundary:

- `PlayerCommand` assumes `WF_vars(StadiumStep)`.
- `PlayerResource` and `PlayerOrientation` assume `WF_vars(CycleStep)`.

The simulator loop always reaches the next cycle boundary. Clients are not
assumed to send anything, and configuration and reconnection are never
forced. `TackleLockEnds` rests on this fairness.

## Not modelled

- `coach.h` declares the coach classes. Only the done-received flag is
  modelled, in `SynchBarrier`. The rest is defined in `coach.cpp`, which is
  not in the sources.
- The stadium's synchronized-mode loop is modelled from `spec.md`. It
  resets the done flag of every slot at the boundary.
- The parser, the transport and the stadium are outside the sources. They
  appear only as the inputs of actions and as `StadiumStep`.
- `parseMsg` writes one byte past the message. This is a memory-layout issue
  that no model here represents.
- `serverparam.h`: most of its lines declare members and getters that
  return a member. The raw-step getters divide by the slow-down factor;
  only `getRawSimStep` is modelled. The setters of `simulator_step` and
  `slow_down_factor`, the defaults and the registration are in
  `serverparam.cpp`, which is not in the sources.
- The v8 coach's `serializeVisualObject` gets its tackling flag from a
  caller outside the sources.
- Physics (the push of `dash`, `kick` and `tackle`, noise and collisions)
  is the stadium's. Its geometric outcomes are action inputs.
- `ear` is checked as the call it makes; what `setEar` stores is outside
  the sources. `pointto`, `clang`, `say` and `compression` store their
  arguments in objects outside the sources, or only send. `compression`
  accepts negative levels (listed as a hazard).
- `change_view` returns part-way for a quality other than `HIGH` or `LOW`
  (`player.cpp:895`), but the parser yields only those two, so the model
  enumerates them and the branch is left out as unreachable.
- `PlayerParam::init` and `convertOldConf` are file handling. They enter
  the model only as the configuration writes.

- The per-team quantize-step getters of `serverparam.h` are inside
  `#ifdef NEW_QSTEP`, which is never defined (the block would not compile:
  it names a type `Vlaue` and a member `defined_qstep_r_l`). The other
  getters of `serverparam.h` only read a member.

## Plan

Work left for later sittings:

- Compose `SynchBarrier` with `PlayerCommand`. Then check, under weak
  fairness of the clients' `done`, that synchronized mode keeps advancing
  while clients come and go. The stale done flag would
  then be checked together with the command-done flag that the same
  `resetCommandFlags` clears.
- Add a hearing model for several players, with `say` delivery order, once
  the audio code is available.
- Model the `ear` mode state kept by `setEar`, if its storage can be
  taken from `spec.md`.

