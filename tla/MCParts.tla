------------------------------ MODULE MCParts -------------------------------
(***************************************************************************)
(* Parts of the library that do not work with each other, checked side by  *)
(* side: Init chooses the one that runs, and the others keep still.        *)
(***************************************************************************)
EXTENDS MCLists, Pool, CfluaPrograms, JsonDump, Meter, Timestamp, Sockaddr, Base64

textVars == <<jsonVars, timestampVars, sockaddrVars, base64Vars>>
otherVars == <<poolVars, cfluaVars, meterVars, textVars>>
mcVars == <<part, listPartVars, shmVars, otherVars>>

SomeScalars == {<<"1">>, <<"quote", "x", "quote">>}
SomeOffsets == {-6, 0, 6, 7}
SomePaths == {<<"p">>, <<"p", "8">>, <<"p", "p", "p">>}
NameKey == <<"k", ":">>

Parts == ListParts \cup ShmParts \cup {"pool", "cflua", "json", "meter", "time", "address", "base64"}

MCInit ==
  /\ part \in Parts
  /\ ListPartInit /\ ShmPartInit
  /\ PoolInit /\ (part # "pool" => \A b \in BlockSizes : blockSize =< b)
  /\ CfluaInit /\ (part # "cflua" => lua = Plain)
  /\ JsonInit /\ (part # "json" => \A b \in BufferSizes : bufferSize =< b)
  /\ MeterInit
  /\ TimestampInit
  /\ part # "time" => \A s \in Seconds, o \in Offsets : clock <= s /\ local <= o
  /\ IF part = "address" THEN SockaddrInit
     ELSE address = NoIP /\ typed = NoIP /\ default = 0 /\ textRoom = 0
  /\ Base64Init

MCNext ==
  /\ UNCHANGED part
  /\ \/ ListPartNext /\ UNCHANGED <<shmVars, otherVars>>
     \/ ShmPartNext /\ UNCHANGED <<listPartVars, otherVars>>
     \/ /\ UNCHANGED <<listPartVars, shmVars>>
        /\ \/ part = "pool" /\ PoolNext /\ UNCHANGED <<cfluaVars, meterVars, textVars>>
           \/ part = "cflua" /\ CfluaNext /\ UNCHANGED <<poolVars, meterVars, textVars>>
           \/ part = "meter" /\ MeterNext /\ UNCHANGED <<poolVars, cfluaVars, textVars>>
           \/ /\ UNCHANGED <<poolVars, cfluaVars, meterVars, sockaddrVars>>
              /\ \/ part = "json" /\ JsonNext /\ UNCHANGED <<timestampVars, base64Vars>>
                 \/ part = "time" /\ TimestampNext /\ UNCHANGED <<jsonVars, base64Vars>>
                 \/ part = "base64" /\ Base64Next /\ UNCHANGED <<jsonVars, timestampVars>>

MCSpec == MCInit /\ [][MCNext]_mcVars

-----------------------------------------------------------------------------
\* ParsedAsWritten and RefusedAsWritten of wuy_cflua.c: what comes of a parse, its
\* error included, is what the tables say.
ParsedAndRefused == ParsedAsWritten /\ RefusedAsWritten


Symmetry == Permutations(Nodes)
=============================================================================
