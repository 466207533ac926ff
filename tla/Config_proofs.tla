--------------------------- MODULE Config_proofs ---------------------------
(***************************************************************************)
(* Proofs about Config: for all roles, pressures and commands, and over    *)
(* restarts at any step, the storage, page 16 and page 1 agree.            *)
(*                                                                         *)
(* The properties speak of the time between commands.  The invariant adds  *)
(* what holds in the middle of main() and of a command: a field that has   *)
(* been loaded is stored unless its save is the step that is next, which   *)
(* keys hold which values, and that a reading can only be fresh, and a     *)
(* command only be handled, once the channel is open.                      *)
(***************************************************************************)
EXTENDS Config, TLAPS

AllFields == Fields \cup {"ambient_pressure"}

ValuesOf(field) == IF field = "role" THEN Roles ELSE Pressures

\* profile_setup has got past the field.
PastLoad(field) ==
  \/ main = "open"
  \/ main = "alarm_low_pressure" /\ field = "role"
  \/ main = "alarm_high_pressure" /\ field # "alarm_high_pressure"

KeysTyped ==
  \A field \in Fields : flash[LoadKey[field]] \in ValuesOf(field) \cup {NoValue}

OnlyWhenOpen ==
  /\ fresh \/ ant # "idle" => main = "open"
  /\ ant # "idle" => command \in Command

Stored ==
  \A field \in Fields \ (failed \cup reset) :
    PastLoad(field) /\ ant # field => flash[LoadKey[field]] = page_16[field]

RoleMatched == ant = "idle" => page_1.role = page_16.role

IInv == /\ TypeOK
        /\ KeysTyped
        /\ OnlyWhenOpen
        /\ Stored
        /\ RoleMatched
        /\ AlarmsMatchPressure

-----------------------------------------------------------------------------
(* Pages, keys and the pressure.                                           *)

\* A page with another value in one field.
LEMMA PageWith ==
  ASSUME NEW page \in Page16, NEW field \in AllFields,
         NEW value \in ValuesOf(field)
  PROVE  /\ [page EXCEPT ![field] = value] \in Page16
         /\ [page EXCEPT ![field] = value][field] = value
         /\ \A f \in AllFields \ {field} :
              [page EXCEPT ![field] = value][f] = page[f]
<1>1. CASE field = "role"
  BY <1>1 DEF Page16, AllFields, Fields, ValuesOf
<1>2. CASE field = "ambient_pressure"
  BY <1>2 DEF Page16, AllFields, Fields, ValuesOf
<1>3. CASE field = "alarm_low_pressure"
  BY <1>3 DEF Page16, AllFields, Fields, ValuesOf
<1>4. CASE field = "alarm_high_pressure"
  BY <1>4 DEF Page16, AllFields, Fields, ValuesOf
<1> QED BY <1>1, <1>2, <1>3, <1>4 DEF AllFields, Fields

LEMMA PageField ==
  ASSUME NEW page \in Page16, NEW field \in AllFields
  PROVE  page[field] \in ValuesOf(field)
BY DEF Page16, AllFields, Fields, ValuesOf

\* The page that is set up first.
LEMMA DefaultPages ==
  /\ DEFAULT_ANT_TPMS_page16 \in Page16
  /\ DEFAULT_ANT_TPMS_page1 \in
       [role : Roles, alarms : SUBSET Alarms, pressure : 0 .. Unset]
  /\ DEFAULT_ANT_TPMS_page1.role = DEFAULT_ANT_TPMS_page16.role
<1>1. NoRole \in Roles
  BY ValueAssumption
<1>2. Unset \in Pressures /\ ANT_TPMS_AMBIENT_DEFAULT \in Pressures
  BY DefaultAssumption
<1>3. Unset \in 0 .. Unset
  BY DEF Unset
<1>4. Alarms \in SUBSET Alarms
  OBVIOUS
<1>5. DEFAULT_ANT_TPMS_page16 \in Page16
  BY <1>1, <1>2 DEF DEFAULT_ANT_TPMS_page16, Page16
<1>6. DEFAULT_ANT_TPMS_page1 \in
        [role : Roles, alarms : SUBSET Alarms, pressure : 0 .. Unset]
  BY <1>1, <1>3, <1>4 DEF DEFAULT_ANT_TPMS_page1
<1> QED BY <1>5, <1>6 DEF DEFAULT_ANT_TPMS_page16, DEFAULT_ANT_TPMS_page1

\* Each field has its own key, the same to load and to save it.
LEMMA DistinctKeys ==
  /\ \A field \in Fields : LoadKey[field] \in Keys /\ KeyOf(field) = LoadKey[field]
  /\ \A f, g \in Fields : LoadKey[f] = LoadKey[g] => f = g
BY DEF Fields, Keys, LoadKey, KeyOf

\* A key of the storage is written.
LEMMA KeyWritten ==
  ASSUME TypeOK, NEW field \in Fields, NEW value
  PROVE  /\ [flash EXCEPT ![LoadKey[field]] = value][LoadKey[field]] = value
         /\ \A f \in Fields \ {field} :
              [flash EXCEPT ![LoadKey[field]] = value][LoadKey[f]]
                = flash[LoadKey[f]]
         /\ value \in Roles \cup Pressures \cup {NoValue} =>
              [flash EXCEPT ![LoadKey[field]] = value]
                \in [Keys -> Roles \cup Pressures \cup {NoValue}]
<1>1. flash \in [Keys -> Roles \cup Pressures \cup {NoValue}]
  BY DEF TypeOK
<1>2. /\ LoadKey[field] \in Keys
      /\ \A f \in Fields \ {field} :
           LoadKey[f] \in Keys /\ LoadKey[f] # LoadKey[field]
  BY DistinctKeys
<1> DEFINE written == [flash EXCEPT ![LoadKey[field]] = value]
<1>3. written[LoadKey[field]] = value
  BY <1>1, <1>2
<1>4. \A f \in Fields \ {field} : written[LoadKey[f]] = flash[LoadKey[f]]
  BY <1>1, <1>2
<1>5. value \in Roles \cup Pressures \cup {NoValue} =>
        written \in [Keys -> Roles \cup Pressures \cup {NoValue}]
  BY <1>1
<1> QED BY <1>3, <1>4, <1>5

\* The pressure of page 1 is an uint16_t, also where it has wrapped.
LEMMA PressureTyped ==
  ASSUME NEW page \in Page16, NEW measured \in Measured
  PROVE  CompensatedPressure(page, measured) \in 0 .. Unset
<1>1. measured \in Int /\ page.ambient_pressure \in Int
  <2>1. measured \in Int
    BY MeasuredAssumption DEF int16
  <2>2. page.ambient_pressure \in Pressures
    BY DEF Page16
  <2>3. \A p \in Pressures : p \in Int
    <3>1. Pressures \subseteq 0 .. Unset
      BY PressureAssumption
    <3>2. \A p \in 0 .. Unset : p \in Int
      OBVIOUS
    <3> QED BY <3>1, <3>2
  <2> QED BY <2>1, <2>2, <2>3
<1>2. AmbientOffset(page) \in Int
  BY <1>1 DEF AmbientOffset, ANT_TPMS_AMBIENT_DEFAULT
<1> DEFINE compensated == Int16(AmbientOffset(page) + measured)
<1>3. compensated \in Int /\ compensated <= 32767
  BY <1>1, <1>2 DEF Int16
<1>4. CompensatedPressure(page, measured)
        = IF compensated <= 75 THEN 0 ELSE compensated
  BY DEF CompensatedPressure
<1> HIDE DEF compensated
<1> DEFINE pressure == CompensatedPressure(page, measured)
<1>5. pressure \in Int /\ 0 <= pressure /\ pressure <= 32767
  BY <1>3, <1>4
<1>6. Unset \in Int /\ 32767 <= Unset
  BY DEF Unset
<1> HIDE DEF pressure
<1>7. pressure \in 0 .. Unset
  BY <1>5, <1>6
<1> QED BY <1>7 DEF pressure

-----------------------------------------------------------------------------
(* main()                                                                  *)

LEMMA SaveDefaultKeepsIInv ==
  ASSUME IInv, NEW field \in Fields, main = field, InitDefaultField(field)
  PROVE  IInv'
<1>1. TypeOK /\ KeysTyped /\ OnlyWhenOpen /\ Stored /\ RoleMatched
  BY DEF IInv
<1>2. DEFAULT_ANT_TPMS_page16[field] \in ValuesOf(field)
  BY DefaultPages, PageField DEF AllFields
<1>3. /\ flash' = [flash EXCEPT ![LoadKey[field]] =
                                       DEFAULT_ANT_TPMS_page16[field]]
      /\ UNCHANGED <<main, page_16, page_1, ant, command, failed, reset, fresh>>
  BY DEF InitDefaultField, InitDefault, page_vars, ant_vars, history
<1>4. /\ flash' \in [Keys -> Roles \cup Pressures \cup {NoValue}]
      /\ flash'[LoadKey[field]] \in ValuesOf(field)
      /\ \A f \in Fields \ {field} : flash'[LoadKey[f]] = flash[LoadKey[f]]
  <2>1. DEFAULT_ANT_TPMS_page16[field] \in Roles \cup Pressures \cup {NoValue}
    BY <1>2 DEF ValuesOf
  <2> QED BY <1>1, <1>2, <1>3, <2>1, KeyWritten
<1>5. TypeOK'
  BY <1>1, <1>3, <1>4 DEF TypeOK
<1>6. KeysTyped'
  BY <1>1, <1>4 DEF KeysTyped, ValuesOf
<1>7. Stored'
  <2>1. ~PastLoad(field)
    BY DEF PastLoad, Fields
  <2> QED BY <1>1, <1>3, <1>4, <2>1 DEF Stored, PastLoad
<1> QED BY <1>1, <1>3, <1>5, <1>6, <1>7
        DEF IInv, OnlyWhenOpen, RoleMatched, AlarmsMatchPressure

LEMMA SensInitKeepsIInv == ASSUME IInv, SensInit PROVE IInv'
<1>1. TypeOK /\ KeysTyped /\ OnlyWhenOpen
  BY DEF IInv
<1>2. /\ main = "profile" /\ main' \in {"role", "failed"}
      /\ page_16' = DEFAULT_ANT_TPMS_page16
      /\ page_1' = DEFAULT_ANT_TPMS_page1
      /\ UNCHANGED <<flash, ant, command, failed, reset, fresh>>
  BY DEF SensInit, ant_vars, history
<1>3. fresh = FALSE /\ ant = "idle"
  BY <1>1, <1>2 DEF OnlyWhenOpen, TypeOK
<1>4. TypeOK'
  BY <1>1, <1>2, DefaultPages DEF TypeOK, Fields
<1>5. Stored'
  BY <1>2 DEF Stored, PastLoad
<1>6. RoleMatched'
  BY <1>2, DefaultPages DEF RoleMatched
<1> QED BY <1>1, <1>2, <1>3, <1>4, <1>5, <1>6
        DEF IInv, KeysTyped, ValuesOf, OnlyWhenOpen, AlarmsMatchPressure

LEMMA LoadFieldKeepsIInv ==
  ASSUME IInv, NEW field \in Fields, LoadField(field)
  PROVE  IInv'
<1>1. TypeOK /\ KeysTyped /\ OnlyWhenOpen /\ Stored /\ RoleMatched
  BY DEF IInv
<1>2. /\ main = field
      /\ main' \in IF NextLoad[field] = "open" THEN {"open", "failed"}
                                               ELSE {NextLoad[field]}
      /\ UNCHANGED <<flash, ant, command, reset, fresh>>
  BY DEF LoadField, ant_vars
<1>3. fresh = FALSE /\ ant = "idle"
  BY <1>1, <1>2 DEF OnlyWhenOpen, TypeOK, Fields
<1>4. PICK value \in ValuesOf(field) :
        /\ Loaded(field, value)
        /\ \/ value = flash[LoadKey[field]] /\ failed' = failed
           \/ failed' = failed \cup {field}
  <2>1. CASE Loaded(field, flash[LoadKey[field]]) /\ UNCHANGED failed
    BY <1>1, <2>1 DEF KeysTyped, LoadField
  <2>2. CASE /\ \E value \in Leftover(field) : Loaded(field, value)
             /\ failed' = failed \cup {field}
    <3>1. Leftover(field) \subseteq ValuesOf(field)
      <4>1. page_16.alarm_low_pressure \in Pressures
        BY <1>1 DEF TypeOK, Page16
      <4> QED BY <4>1 DEF Leftover, ValuesOf, Fields
    <3> QED BY <2>2, <3>1
  <2> QED BY <2>1, <2>2 DEF LoadField
<1>5. /\ page_16' \in Page16
      /\ page_16'[field] = value
      /\ \A f \in AllFields \ {field} : page_16'[f] = page_16[f]
  <2> DEFINE page == [page_16 EXCEPT ![field] = value]
  <2>1. page_16 \in Page16 /\ field \in AllFields
    BY <1>1 DEF TypeOK, AllFields
  <2>2. /\ page \in Page16 /\ page[field] = value
        /\ \A f \in AllFields \ {field} : page[f] = page_16[f]
    BY <2>1, PageWith
  <2>3. page_16' = page
    BY <1>4 DEF Loaded
  <2> HIDE DEF page
  <2> QED BY <2>2, <2>3
<1>6. /\ page_1' \in [role : Roles, alarms : SUBSET Alarms, pressure : 0 .. Unset]
      /\ page_1'.role = IF field = "role" THEN value ELSE page_1.role
  BY <1>1, <1>4 DEF Loaded, TypeOK, ValuesOf
<1>7. main' \in {"open", "failed"} \cup Fields /\ failed' \subseteq Fields
  <2>1. main' \in {"open", "failed"} \cup Fields
    BY <1>2 DEF NextLoad, Fields
  <2> QED BY <1>1, <1>4, <2>1 DEF TypeOK
<1>8. TypeOK'
  BY <1>1, <1>2, <1>5, <1>6, <1>7 DEF TypeOK
<1>9. KeysTyped'
  BY <1>1, <1>2 DEF KeysTyped, ValuesOf
<1>10. Stored'
  <2> SUFFICES ASSUME NEW f \in Fields, f \notin failed' \cup reset',
                      PastLoad(f)'
               PROVE  flash'[LoadKey[f]] = page_16'[f]
    BY DEF Stored
  <2>1. CASE f = field
    BY <1>2, <1>4, <1>5, <2>1
  <2>2. CASE f # field
    <3>1. PastLoad(f)
      BY <1>2, <2>2 DEF PastLoad, NextLoad, Fields
    <3>2. f \notin failed \cup reset
      BY <1>2, <1>4
    <3>3. ant # f
      BY <1>3 DEF Fields
    <3> QED BY <1>1, <1>2, <1>5, <2>2, <3>1, <3>2, <3>3 DEF Stored, AllFields
  <2> QED BY <2>1, <2>2
<1>11. RoleMatched'
  <2>1. page_1.role = page_16.role
    BY <1>1, <1>3 DEF RoleMatched
  <2>2. CASE field = "role"
    BY <1>5, <1>6, <2>2 DEF RoleMatched, Page16
  <2>3. CASE field # "role"
    BY <1>1, <1>5, <1>6, <2>1, <2>3 DEF RoleMatched, AllFields, Fields, Page16, TypeOK
  <2> QED BY <2>2, <2>3
<1> QED BY <1>2, <1>3, <1>8, <1>9, <1>10, <1>11
        DEF IInv, OnlyWhenOpen, AlarmsMatchPressure

-----------------------------------------------------------------------------
(* The handler of commands                                                 *)

LEMMA ReceiveKeepsIInv ==
  ASSUME IInv, NEW c \in Commands, ReceiveCommand(c)
  PROVE  IInv'
<1>1. /\ TypeOK /\ KeysTyped /\ OnlyWhenOpen /\ Stored /\ RoleMatched
      /\ AlarmsMatchPressure
  BY DEF IInv
<1>2. c \in Command
  BY ValueAssumption
<1>3. /\ main = "open" /\ ant = "idle" /\ command' = c /\ ant' = "set_role"
      /\ page_16' = IF IsReset(c) THEN DEFAULT_ANT_TPMS_page16 ELSE page_16
      /\ reset' = IF IsReset(c) THEN Fields ELSE reset
      /\ fresh' = (fresh /\ ~IsReset(c))
      /\ UNCHANGED <<flash, main, page_1, failed>>
  BY DEF ReceiveCommand
<1>4. IsReset(c) \in BOOLEAN
  BY DEF IsReset
<1>5. TypeOK'
  BY <1>1, <1>2, <1>3, <1>4, DefaultPages DEF TypeOK
<1>6. Stored'
  <2>1. CASE IsReset(c)
    BY <1>3, <2>1 DEF Stored
  <2>2. CASE ~IsReset(c)
    BY <1>1, <1>3, <2>2 DEF Stored, PastLoad, Fields
  <2> QED BY <2>1, <2>2
<1>7. AlarmsMatchPressure'
  <2>1. CASE IsReset(c)
    BY <1>3, <2>1 DEF AlarmsMatchPressure
  <2>2. CASE ~IsReset(c)
    BY <1>1, <1>3, <2>2 DEF AlarmsMatchPressure
  <2> QED BY <2>1, <2>2
<1> QED BY <1>1, <1>2, <1>3, <1>5, <1>6, <1>7
        DEF IInv, KeysTyped, ValuesOf, OnlyWhenOpen, RoleMatched

\* A step of the handler that may set a field; next is a later step.
LEMMA ConfigureKeepsIInv ==
  ASSUME IInv,
         NEW step \in {"set_role", "set_ambient", "set_low", "set_high"},
         NEW flag \in Flags, NEW field \in AllFields,
         NEW next \in {"set_ambient", "set_low", "set_high", "match"},
         Configure(step, flag, field, next)
  PROVE  IInv'
<1>1. /\ TypeOK /\ KeysTyped /\ OnlyWhenOpen /\ Stored /\ RoleMatched
      /\ AlarmsMatchPressure
  BY DEF IInv
<1>2. /\ main = "open" /\ ant = step
      /\ UNCHANGED <<flash, main, page_1, command, failed>>
  BY DEF Configure
<1>3. command \in Command
  BY <1>1, <1>2 DEF OnlyWhenOpen
<1>4. ant' \in {"set_ambient", "set_low", "set_high", "match"} \cup Fields
  BY DEF Configure
<1>5. KeysTyped' /\ OnlyWhenOpen' /\ RoleMatched'
  BY <1>1, <1>2, <1>3, <1>4
     DEF KeysTyped, ValuesOf, OnlyWhenOpen, RoleMatched, Fields
<1>6. CASE flag \in command.flags
  <2>1. /\ page_16' = [page_16 EXCEPT ![field] = command.page[field]]
        /\ reset' = reset \ {field}
        /\ fresh' = (fresh /\ field = "role")
        /\ ant' = IF field \in Fields THEN field ELSE next
    BY <1>6 DEF Configure
  <2>2. command.page[field] \in ValuesOf(field)
    BY <1>3, PageField DEF Command
  <2>3. /\ page_16' \in Page16
        /\ page_16'[field] = command.page[field]
        /\ \A f \in AllFields \ {field} : page_16'[f] = page_16[f]
    <3> DEFINE page == [page_16 EXCEPT ![field] = command.page[field]]
    <3>1. page_16 \in Page16
      BY <1>1 DEF TypeOK
    <3>2. /\ page \in Page16 /\ page[field] = command.page[field]
          /\ \A f \in AllFields \ {field} : page[f] = page_16[f]
      BY <2>2, <3>1, PageWith
    <3>3. page_16' = page
      BY <2>1
    <3> HIDE DEF page
    <3> QED BY <3>2, <3>3
  <2>4. TypeOK'
    BY <1>1, <1>2, <1>4, <2>1, <2>3 DEF TypeOK
  <2>5. Stored'
    <3> SUFFICES ASSUME NEW f \in Fields, f \notin failed' \cup reset',
                        PastLoad(f)', ant' # f
                 PROVE  flash'[LoadKey[f]] = page_16'[f]
      BY DEF Stored
    <3>1. f # field
      BY <2>1
    <3>2. f \notin failed \cup reset /\ PastLoad(f) /\ ant # f
      BY <1>2, <2>1, <3>1 DEF PastLoad, Fields
    <3> QED BY <1>1, <1>2, <2>3, <3>1, <3>2 DEF Stored, AllFields
  <2>6. AlarmsMatchPressure'
    <3>1. CASE field # "role"
      BY <2>1, <3>1 DEF AlarmsMatchPressure
    <3>2. CASE field = "role"
      <4>1. /\ page_16'.alarm_low_pressure = page_16.alarm_low_pressure
            /\ page_16'.alarm_high_pressure = page_16.alarm_high_pressure
        BY <1>1, <2>3, <3>2 DEF AllFields, Fields, TypeOK, Page16
      <4> QED BY <1>1, <1>2, <2>1, <4>1 DEF AlarmsMatchPressure, AlarmsConfigured
    <3> QED BY <3>1, <3>2
  <2> QED BY <1>5, <2>4, <2>5, <2>6 DEF IInv
<1>7. CASE flag \notin command.flags
  <2>1. ant' = next /\ UNCHANGED <<page_16, reset, fresh>>
    BY <1>7 DEF Configure
  <2>2. TypeOK'
    BY <1>1, <1>2, <1>4, <2>1 DEF TypeOK
  <2>3. Stored'
    BY <1>1, <1>2, <2>1 DEF Stored, PastLoad, Fields
  <2>4. AlarmsMatchPressure'
    BY <1>1, <1>2, <2>1 DEF AlarmsMatchPressure, AlarmsConfigured
  <2> QED BY <1>5, <2>2, <2>3, <2>4 DEF IInv
<1> QED BY <1>6, <1>7

LEMMA SaveFieldKeepsIInv ==
  ASSUME IInv, NEW field \in Fields,
         NEW next \in {"set_ambient", "set_high", "match"},
         SaveField(field, next)
  PROVE  IInv'
<1>1. /\ TypeOK /\ KeysTyped /\ OnlyWhenOpen /\ Stored /\ RoleMatched
      /\ AlarmsMatchPressure
  BY DEF IInv
<1>2. /\ main = "open" /\ ant = field /\ ant' = next /\ ant # "idle"
      /\ UNCHANGED <<main, page_16, page_1, command, reset, fresh>>
  BY DEF SaveField, page_vars, Fields
<1>3. page_16[field] \in ValuesOf(field)
  BY <1>1, PageField DEF TypeOK, AllFields
<1>4. /\ flash' \in [Keys -> Roles \cup Pressures \cup {NoValue}]
      /\ failed' \subseteq Fields
      /\ flash'[LoadKey[field]] \in ValuesOf(field) \cup {NoValue}
      /\ field \in failed' \/ flash'[LoadKey[field]] = page_16[field]
      /\ \A f \in Fields \ {field} :
           /\ flash'[LoadKey[f]] = flash[LoadKey[f]]
           /\ f \in failed' <=> f \in failed
  <2>1. CASE /\ flash' = [flash EXCEPT ![KeyOf(field)] = page_16[field]]
             /\ failed' = failed \ {field}
    <3>1. flash' = [flash EXCEPT ![LoadKey[field]] = page_16[field]]
      BY <2>1, DistinctKeys
    <3>2. page_16[field] \in Roles \cup Pressures \cup {NoValue}
      BY <1>3 DEF ValuesOf
    <3>3. /\ flash' \in [Keys -> Roles \cup Pressures \cup {NoValue}]
          /\ flash'[LoadKey[field]] = page_16[field]
          /\ \A f \in Fields \ {field} : flash'[LoadKey[f]] = flash[LoadKey[f]]
      BY <1>1, <3>1, <3>2, KeyWritten
    <3> QED BY <1>1, <1>3, <2>1, <3>3 DEF TypeOK
  <2>2. CASE failed' = failed \cup {field} /\ UNCHANGED flash
    BY <1>1, <2>2 DEF TypeOK, KeysTyped
  <2> QED BY <2>1, <2>2 DEF SaveField
<1>5. TypeOK'
  BY <1>1, <1>2, <1>4 DEF TypeOK
<1>6. KeysTyped'
  BY <1>1, <1>4 DEF KeysTyped, ValuesOf
<1>7. Stored'
  <2> SUFFICES ASSUME NEW f \in Fields, f \notin failed' \cup reset'
               PROVE  flash'[LoadKey[f]] = page_16'[f]
    BY DEF Stored
  <2>1. CASE f = field
    BY <1>2, <1>4, <2>1
  <2>2. CASE f # field
    BY <1>1, <1>2, <1>4, <2>2 DEF Stored, PastLoad
  <2> QED BY <2>1, <2>2
<1> QED BY <1>1, <1>2, <1>5, <1>6, <1>7
        DEF IInv, OnlyWhenOpen, RoleMatched, AlarmsMatchPressure,
            AlarmsConfigured

LEMMA MatchRoleKeepsIInv == ASSUME IInv, MatchRole PROVE IInv'
<1>1. /\ TypeOK /\ KeysTyped /\ OnlyWhenOpen /\ Stored
      /\ AlarmsMatchPressure
  BY DEF IInv
<1>2. /\ main = "open" /\ ant = "match" /\ ant' = "idle"
      /\ command' = NoCommand
      /\ page_1' = [page_1 EXCEPT !.role = page_16.role]
      /\ UNCHANGED <<flash, main, page_16, failed, reset, fresh>>
  BY DEF MatchRole, history
<1>3. /\ page_1' \in [role : Roles, alarms : SUBSET Alarms, pressure : 0 .. Unset]
      /\ page_1'.role = page_16.role
      /\ page_1'.alarms = page_1.alarms /\ page_1'.pressure = page_1.pressure
  BY <1>1, <1>2 DEF TypeOK, Page16
<1>4. TypeOK'
  BY <1>1, <1>2, <1>3 DEF TypeOK
<1>5. Stored'
  BY <1>1, <1>2 DEF Stored, PastLoad, Fields
<1> QED BY <1>1, <1>2, <1>3, <1>4, <1>5
        DEF IInv, KeysTyped, ValuesOf, OnlyWhenOpen, RoleMatched,
            AlarmsMatchPressure, AlarmsConfigured

-----------------------------------------------------------------------------
(* Readings and restarts                                                   *)

LEMMA SensorDataKeepsIInv ==
  ASSUME IInv, NEW measured \in Measured, SensorData(measured)
  PROVE  IInv'
<1> DEFINE pressure == CompensatedPressure(page_16, measured)
           alarms == AlarmsOf(page_16, pressure)
<1>1. TypeOK /\ KeysTyped /\ OnlyWhenOpen /\ Stored /\ RoleMatched
  BY DEF IInv
<1>2. /\ main = "open" /\ fresh' = TRUE
      /\ page_1' = [page_1 EXCEPT !.pressure = pressure, !.alarms = alarms]
      /\ UNCHANGED <<flash, main, page_16, ant, command, failed, reset>>
  BY DEF SensorData, ant_vars
<1>3. pressure \in 0 .. Unset
  BY <1>1, PressureTyped DEF TypeOK
<1>4. /\ alarms \subseteq Alarms
      /\ "LOW_OK" \in alarms <=>
           (AlarmsConfigured(page_16) => page_16.alarm_low_pressure <= pressure)
      /\ "HIGH_OK" \in alarms <=>
           (AlarmsConfigured(page_16) => pressure <= page_16.alarm_high_pressure)
  <2> HIDE DEF pressure
  <2> QED BY DEF AlarmsOf, AlarmBits, Alarms
<1> HIDE DEF pressure, alarms
<1>5. /\ page_1' \in [role : Roles, alarms : SUBSET Alarms, pressure : 0 .. Unset]
      /\ page_1'.role = page_1.role
      /\ page_1'.alarms = alarms /\ page_1'.pressure = pressure
  BY <1>1, <1>2, <1>3, <1>4 DEF TypeOK
<1>6. TypeOK'
  BY <1>1, <1>2, <1>5 DEF TypeOK
<1>7. AlarmsMatchPressure'
  BY <1>2, <1>4, <1>5 DEF AlarmsMatchPressure, AlarmsConfigured
<1> QED BY <1>1, <1>2, <1>5, <1>6, <1>7
        DEF IInv, KeysTyped, ValuesOf, OnlyWhenOpen, Stored, PastLoad,
            RoleMatched

LEMMA RestartKeepsIInv == ASSUME IInv, Restart PROVE IInv'
<1>1. TypeOK /\ KeysTyped
  BY DEF IInv
<1>2. /\ main' = "profile" /\ ant' = "idle" /\ command' = NoCommand
      /\ page_16' = DEFAULT_ANT_TPMS_page16
      /\ page_1' = DEFAULT_ANT_TPMS_page1
      /\ failed' = {} /\ reset' = {} /\ fresh' = FALSE /\ flash' = flash
  BY DEF Restart
<1>3. TypeOK'
  BY <1>1, <1>2, DefaultPages DEF TypeOK
<1> QED BY <1>1, <1>2, <1>3, DefaultPages
        DEF IInv, KeysTyped, ValuesOf, OnlyWhenOpen, Stored, PastLoad,
            RoleMatched, AlarmsMatchPressure

LEMMA InitIInv == Init => IInv
<1> SUFFICES ASSUME Init PROVE IInv
  OBVIOUS
<1>1. TypeOK
  BY DefaultPages DEF Init, TypeOK
<1>2. KeysTyped
  BY DistinctKeys DEF Init, KeysTyped
<1> QED BY <1>1, <1>2, DefaultPages
        DEF Init, IInv, OnlyWhenOpen, Stored, PastLoad, RoleMatched,
            AlarmsMatchPressure

LEMMA StutterKeepsIInv == ASSUME IInv, UNCHANGED vars PROVE IInv'
BY DEF IInv, TypeOK, KeysTyped, ValuesOf, OnlyWhenOpen, Stored, PastLoad,
       RoleMatched, AlarmsMatchPressure, AlarmsConfigured, vars

LEMMA Inductive == Spec => []IInv
<1>1. IInv /\ [Next]_vars => IInv'
  <2> SUFFICES ASSUME IInv, [Next]_vars PROVE IInv'
    OBVIOUS
  <2>1. CASE MainStep
    BY <2>1, SaveDefaultKeepsIInv, SensInitKeepsIInv, LoadFieldKeepsIInv
       DEF MainStep, SaveDefault
  <2>2. CASE HandlerStep
    <3>1. CASE ConfigureRole \/ ConfigureAmbient \/ ConfigureLow \/ ConfigureHigh
      BY <3>1, ConfigureKeepsIInv
         DEF ConfigureRole, ConfigureAmbient, ConfigureLow, ConfigureHigh,
             Flags, AllFields, Fields
    <3>2. CASE \/ SaveField("role", "set_ambient")
               \/ SaveField("alarm_low_pressure", "set_high")
               \/ SaveField("alarm_high_pressure", "match")
      BY <3>2, SaveFieldKeepsIInv DEF Fields
    <3> QED BY <2>2, <3>1, <3>2, MatchRoleKeepsIInv DEF HandlerStep
  <2> QED BY <2>1, <2>2, ReceiveKeepsIInv, SensorDataKeepsIInv,
             RestartKeepsIInv, StutterKeepsIInv DEF Next
<1> QED BY <1>1, InitIInv, PTL DEF Spec

-----------------------------------------------------------------------------
(* The results.                                                            *)

\* The pages and the storage keep their types; the pressure stays a uint16_t.
THEOREM TypeTheorem == Spec => []TypeOK
BY Inductive, PTL DEF IInv

\* For all commands, failures and restarts: between commands the storage holds
\* what page 16 shows.
THEOREM StoredTheorem == Spec => []StoredAsShown
<1>1. IInv => StoredAsShown
  BY DEF IInv, Stored, PastLoad, StoredAsShown, Fields
<1> QED BY <1>1, Inductive, PTL

\* Between commands both pages show the same role.
THEOREM RoleTheorem == Spec => []RoleOnBothPages
<1>1. IInv => RoleOnBothPages
  BY DEF IInv, RoleMatched, RoleOnBothPages
<1> QED BY <1>1, Inductive, PTL

\* For all thresholds and pressures the alarm bits agree with the pressure
\* beside them.
THEOREM AlarmsTheorem == Spec => []AlarmsMatchPressure
BY Inductive, PTL DEF IInv
=============================================================================
