----------------------------- MODULE Timestamp ------------------------------
(***************************************************************************)
(* The texts of times that wuy_time.c and wuy_http.c keep in static        *)
(* buffers.  A text is the second it was made for.                         *)
(***************************************************************************)
EXTENDS Integers

CONSTANTS
  Seconds,    \* the times the clock shows and that are asked for
  Offsets,    \* gmt_offset, and what the local one is from time to time
  Minute,     \* seconds of a minute: an offset is written in minutes
  NoText

Local == -10000   \* WUY_TIME_ZONE_LOCAL
Unset == -1       \* the local offset is not yet known

\* No clock shows the first hours of 1970 any more.
ASSUME TimestampAssumption ==
  /\ Seconds \subseteq Int /\ Offsets \subseteq Int \ {Local} /\ Minute \in Nat \ {0}
  /\ NoText \notin Int
  /\ \A s \in Seconds, o \in Offsets : s > 0 /\ s + o > 0

VARIABLES
  clock,      \* gettimeofday()
  local,      \* the offset of the system's zone, which summer changes
  gmtoff,     \* the static of wuy_time_local_gmtoff()
  last_sec, buf_sec,  \* the statics of wuy_time_rfc3339()
  cache,      \* the static of wuy_http_date_make(); its `last' stays 0
  text        \* the text of the last call: [second, zone, asked, at]

timestampVars == <<clock, local, gmtoff, last_sec, buf_sec, cache, text>>

TimestampInit ==
  /\ clock \in Seconds /\ local \in Offsets
  /\ gmtoff = Unset /\ last_sec = 0 /\ buf_sec = NoText /\ cache = NoText
  /\ text = NoText

Passes(s, o) ==
  clock' = s /\ local' = o /\ UNCHANGED <<gmtoff, last_sec, buf_sec, cache, text>>

\* The zone as it is written, sign, hours and minutes, and what that stands for.
Zone(o) == IF o >= 0 THEN (o \div Minute) * Minute ELSE -(((-o) \div Minute) * Minute)

\* Mutant: the text is made anew when the clock's second is another.
FreshUnshifted(o) == clock = last_sec

Fresh(o) == clock + o = last_sec

\* wuy_time_rfc3339(), with wuy_time_local_gmtoff() when the zone is the local one.
Rfc3339(asked) ==
  /\ gmtoff' = IF asked = Local /\ gmtoff = Unset THEN local ELSE gmtoff
  /\ LET o == IF asked = Local THEN gmtoff' ELSE asked IN
     /\ last_sec' = IF Fresh(o) THEN last_sec ELSE clock + o
     /\ buf_sec' = IF Fresh(o) THEN buf_sec ELSE clock + o
     /\ text' = [second |-> buf_sec', zone |-> Zone(o), asked |-> o, at |-> clock]
  /\ UNCHANGED <<clock, local, cache>>

\* wuy_http_date_make().
DateMake(ts) ==
  /\ cache' = IF ts # 0 THEN ts ELSE cache
  /\ text' = [second |-> cache', zone |-> 0, asked |-> 0, at |-> ts]
  /\ UNCHANGED <<clock, local, gmtoff, last_sec, buf_sec>>

TimestampNext ==
  \/ \E s \in Seconds, o \in Offsets : Passes(s, o)
  \/ \E asked \in Offsets \cup {Local} : Rfc3339(asked)
  \/ \E ts \in Seconds \cup {0} : DateMake(ts)

TimestampSpec == TimestampInit /\ [][TimestampNext]_timestampVars

-----------------------------------------------------------------------------
\* Whichever zones are asked for in one second, and when the local one changes
\* while its offset is kept, a text with its zone stands for the time that is
\* meant; offsets that are no whole minutes cannot be written, and 0 is taken for
\* the time that is cached.
TextIsOfTime ==
  text # NoText /\ text.asked % Minute = 0 /\ text.at # 0 =>
    text.second - text.zone = text.at
=============================================================================
