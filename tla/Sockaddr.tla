------------------------------ MODULE Sockaddr ------------------------------
(***************************************************************************)
(* wuy_sockaddr.c: socket addresses to and from text.  A text is a sequence*)
(* of digits, "[", "]", ":", "unix:", letters of a path, and addresses as  *)
(* inet_pton() takes and inet_ntop() writes them, each for a whole.        *)
(***************************************************************************)
EXTENDS Integers, SequencesExt

CONSTANTS
  IPv4, IPv6,  \* addresses
  AnyIP,       \* the one of a socket that listens at all
  Paths,       \* of Unix sockets
  Ports,       \* of the addresses that are written or meant
  Ten,         \* the base that ports are written in
  MaxPort,     \* 65535
  PathRoom,    \* sizeof(sun_path)
  IPWidth,     \* how many bytes an address takes as text
  TextRooms    \* sizes of buffers

ASSUME SockaddrAssumption ==
  /\ AnyIP \notin IPv4 \cup IPv6 /\ Ports \subseteq 0 .. MaxPort
  /\ Ten \in 2 .. 10 /\ PathRoom \in Nat /\ IPWidth \in Nat /\ TextRooms \subseteq Nat

VARIABLES
  address,  \* that is written: [family, ip, port] or [family, path]
  typed,    \* what a user types: [family, ip, port], each of the two may be left out
  default,  \* default_port
  textRoom  \* size of the buffer

sockaddrVars == <<address, typed, default, textRoom>>

NoPort == -1
NoIP == "no ip"
NotLoaded == [family |-> "not loaded"]
Inet(family, ip, port) == [family |-> family, ip |-> ip, port |-> port]
Unix(path) == [family |-> "unix", path |-> path]
FamilyOf(ip) == IF ip \in IPv4 THEN "inet" ELSE "inet6"

Addresses ==
  {Inet(FamilyOf(ip), ip, port) : ip \in IPv4 \cup IPv6, port \in Ports}
    \cup {Unix(path) : path \in Paths}
Typed ==
  {Inet("inet", ip, port) : ip \in IPv4 \cup {NoIP}, port \in Ports \cup {NoPort}}
    \cup {Inet("inet6", ip, port) : ip \in IPv6 \cup {NoIP}, port \in Ports \cup {NoPort}}

SockaddrInit ==
  /\ address \in Addresses /\ typed \in Typed
  /\ default \in Ports /\ textRoom \in TextRooms

SockaddrSpec == SockaddrInit /\ [][UNCHANGED sockaddrVars]_sockaddrVars

-----------------------------------------------------------------------------
DigitNames == <<"0", "1", "2", "3", "4", "5", "6", "7", "8", "9">>
IsDigit(c) == \E i \in 1 .. 10 : DigitNames[i] = c
DigitOf(c) == (CHOOSE i \in 1 .. 10 : DigitNames[i] = c) - 1

Digits(n) ==
  LET of[m \in 0 .. n] ==
        (IF m < Ten THEN <<>> ELSE of[m \div Ten]) \o <<DigitNames[(m % Ten) + 1]>>
  IN  of[n]

\* strchr(); 0 when there is none.
Strchr(text, c) == SelectInSeq(text, LAMBDA d : d = c)

\* wuy_port_pton(): it gives up as soon as the port is too large.
PortOf(text) ==
  LET n == FoldLeft(LAMBDA m, c : IF m > MaxPort \/ ~IsDigit(c) THEN MaxPort + 1
                                  ELSE m * Ten + DigitOf(c), 0, text)
  IN  IF n \in 1 .. MaxPort THEN n ELSE NoPort

\* The address when both its parts are ones.
BothParts(family, ip, ips, port) ==
  IF port # NoPort /\ Len(ip) = 1 /\ ip[1] \in ips THEN Inet(family, ip[1], port) ELSE NotLoaded

Listening(family, port) == IF port # NoPort THEN Inet(family, AnyIP, port) ELSE NotLoaded

\* wuy_sockaddr_pton_ipv4().
LoadIPv4(text, default_port) ==
  LET colon == Strchr(text, ":") IN
  IF colon # 0
  THEN BothParts("inet", SubSeq(text, 1, colon - 1), IPv4, PortOf(SubSeq(text, colon + 1, Len(text))))
  ELSE IF default_port # 0 THEN BothParts("inet", text, IPv4, default_port)
  ELSE Listening("inet", PortOf(text))

\* wuy_sockaddr_pton_ipv6().
LoadIPv6(text, default_port) ==
  LET close == Strchr(text, "]")
      ip    == SubSeq(text, 2, close - 1)
      rest  == SubSeq(text, close + 1, Len(text))
      port  == IF rest # <<>> THEN PortOf(Tail(rest))
               ELSE IF default_port # 0 THEN default_port ELSE NoPort
  IN  IF close = 0 \/ (rest # <<>> /\ Head(rest) # ":") THEN NotLoaded
      ELSE IF ip # <<>> THEN BothParts("inet6", ip, IPv6, port)
      ELSE IF default_port # 0 THEN NotLoaded
      ELSE Listening("inet6", port)

\* wuy_sockaddr_loads().
Loads(text, default_port) ==
  IF text # <<>> /\ Head(text) = "unix:"
  THEN IF Len(text) - 1 < PathRoom THEN Unix(Tail(text)) ELSE NotLoaded
  ELSE IF text # <<>> /\ Head(text) = "[" THEN LoadIPv6(text, default_port)
  ELSE LoadIPv4(text, default_port)

-----------------------------------------------------------------------------
UpTo(text, n) == SubSeq(text, 1, IF n < Len(text) THEN n ELSE Len(text))


\* What snprintf() puts of a port into what is left, which ends with a NUL.
PortText(port, left) == UpTo(<<":">> \o Digits(port), left - 1)

NotWritten == <<"not written">>

\* wuy_sockaddr_dumps(), with wuy_sockaddr_dumps_iponly() that writes the digit 0
\* instead of a NUL behind the bracket: what the buffer has there goes on up to the
\* next NUL, which is taken to be the next byte.
Dumps(a, size) ==
  IF a.family = "unix" THEN <<"unix:">> \o UpTo(a.path, size - 5)
  ELSE IF a.family = "inet"
       THEN IF IPWidth >= size THEN NotWritten
            ELSE <<a.ip>> \o PortText(a.port, size - IPWidth)
  ELSE IF IPWidth >= size - 2 THEN NotWritten
       ELSE <<"[", a.ip, "]", "0">> \o PortText(a.port, size - IPWidth - 3)

\* How a user writes the address, as wuy_sockaddr.h lists the formats.
Written(t) ==
  LET ip   == IF t.ip = NoIP THEN <<>> ELSE <<t.ip>>
      port == IF t.port = NoPort THEN <<>> ELSE Digits(t.port)
      sep  == IF t.port = NoPort \/ (t.family = "inet" /\ t.ip = NoIP) THEN <<>> ELSE <<":">>
  IN  (IF t.family = "inet6" THEN <<"[">> \o ip \o <<"]">> ELSE ip) \o sep \o port

-----------------------------------------------------------------------------
\* Each format of wuy_sockaddr.h is read as it says: with a default port the ip is
\* mandatory, without one the port is, and port 0 is none.
LoadedAsTyped ==
  LET port == IF typed.port = NoPort THEN default ELSE typed.port
      right == port # 0 /\ IF default # 0 THEN typed.ip # NoIP ELSE typed.port # NoPort
  IN  Loads(Written(typed), default) =
        IF right THEN [typed EXCEPT !.ip = IF @ = NoIP THEN AnyIP ELSE @, !.port = port]
        ELSE NotLoaded

\* An IPv4 or a Unix address is read back from the text that was written of it into
\* a buffer with room, but that one with port 0 is written and then refused; in a
\* buffer without room no more than its size is written, and what is read back is at
\* most wrong in its port or its path.  An IPv6 address is never read back: the digit
\* behind its bracket is no NUL and no colon (wuy_sockaddr.c:151).
ReadBack ==
  LET text == Dumps(address, textRoom)
      back == Loads(text, default)
      width == IF address.family = "unix" THEN 5 + Len(text) - 1
               ELSE IPWidth + Len(text) - 1
  IN  /\ address.family = "unix" /\ Len(address.path) < PathRoom /\ Len(address.path) + 5 < textRoom
           => back = address
      /\ address.family = "inet" /\ text # NotWritten =>
           /\ width < textRoom
           /\ IPWidth + 1 + Len(Digits(address.port)) < textRoom
                => back = IF address.port = 0 THEN NotLoaded ELSE address
           /\ back # NotLoaded => back.ip \in {address.ip, AnyIP}
      /\ address.family = "inet6" => back # address
=============================================================================
