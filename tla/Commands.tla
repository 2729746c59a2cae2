------------------------------ MODULE Commands ------------------------------
(***************************************************************************)
(* The command parser (src/command_parser.rs): what the values of a parsed *)
(* array mean.  Words are compared in upper case by the code; here they    *)
(* have no case, and stand in two pieces so that a text can be cut inside. *)
(*                                                                         *)
(* OneWordOrNone and ParseKeysVerbatim are slips of the operator each of   *)
(* them precedes: nothing uses them.                                       *)
(***************************************************************************)
EXTENDS Resp

CONSTANT IdLength       \* the length of a replication id, 40 in the code

ASSUME IdLengthAssumption == IdLength \in 2 .. 9

PingWord == <<"pi", "ng">>
EchoWord == <<"ec", "ho">>
GetWord == <<"ge", "t">>
IncrWord == <<"in", "cr">>
KeysWord == <<"ke", "ys">>
InfoWord == <<"in", "fo">>
ReplicationWord == <<"repli", "cation">>
ConfigWord == <<"con", "fig">>
DirWord == <<"d", "ir">>
DbFilenameWord == <<"db", "filename">>
MultiWord == <<"mul", "ti">>
ExecWord == <<"ex", "ec">>
DiscardWord == <<"dis", "card">>
ReplconfWord == <<"repl", "conf">>
ListeningPortWord == <<"listening-", "port">>
CapaWord == <<"ca", "pa">>
EofWord == <<"e", "of">>
Psync2Word == <<"psync", "2">>
GetackWord == <<"get", "ack">>
AckWord == <<"a", "ck">>
PsyncWord == <<"ps", "ync">>

IsBulk(v) == v[1] = "bulk"
AllBulk(vs) == \A i \in DOMAIN vs : IsBulk(vs[i])
StartsBulk(vs) == vs # <<>> /\ IsBulk(vs[1])

(* parse::<u16>, parse::<u64>.                                             *)
PortMax == 65535
FitsPort(t) == IsInt(t) /\ t[1] # "-" /\ IntOf(t) <= PortMax
FitsU64(t) == IsInt(t) /\ t[1] # "-"

(* GET, INCR, ECHO and GETACK want a string and look no further.           *)
OneWordOrNone(name, args) ==
  IF args = <<>> \/ StartsBulk(args) THEN <<name, IF args = <<>> THEN <<>> ELSE args[1][2]>>
  ELSE NoCommand

OneWord(name, args) ==
  IF StartsBulk(args) THEN <<name, args[1][2]>> ELSE NoCommand

ParseKeysVerbatim(args) ==
  IF StartsBulk(args) THEN <<"keys", args[1][2]>> ELSE NoCommand

ParseKeys(args) ==
  IF ~ StartsBulk(args) THEN NoCommand
  ELSE <<"keys", FlattenSeq([i \in DOMAIN args[1][2] |->
                   IF args[1][2][i] = "*" THEN <<".", "*">> ELSE <<args[1][2][i]>>])>>

ParseConfig(args) ==
  IF Len(args) >= 2 /\ AllBulk(SubSeq(args, 1, 2)) /\ args[1][2] = GetWord
     /\ args[2][2] \in {DirWord, DbFilenameWord}
    THEN <<"config", args[2][2]>> ELSE NoCommand

(* The words of a list that are known; the others are passed over.         *)
Known(args, words) ==
  FlattenSeq([i \in DOMAIN args |-> IF args[i][2] \in words THEN <<args[i][2]>> ELSE <<>>])

ParseInfo(args) ==
  IF AllBulk(args) THEN <<"info", Known(args, {ReplicationWord})>> ELSE NoCommand

ParseCapa(args) ==
  IF AllBulk(args) /\ Known(args, {EofWord, Psync2Word}) # <<>>
    THEN <<"capa", Known(args, {EofWord, Psync2Word})>> ELSE NoCommand

ParseListeningPort(args) ==
  IF StartsBulk(args) /\ FitsPort(args[1][2])
    THEN <<"listening-port", IntOf(args[1][2])>> ELSE NoCommand

ParseAck(args) ==
  IF StartsBulk(args) /\ FitsU64(args[1][2]) THEN <<"ack", IntOf(args[1][2])>> ELSE NoCommand

ParseReplconf(args) ==
  IF ~ StartsBulk(args) THEN NoCommand
  ELSE CASE args[1][2] = ListeningPortWord -> ParseListeningPort(Tail(args))
         [] args[1][2] = CapaWord          -> ParseCapa(Tail(args))
         [] args[1][2] = GetackWord        -> OneWord("getack", Tail(args))
         [] args[1][2] = AckWord           -> ParseAck(Tail(args))
         [] OTHER                          -> NoCommand

(* An id of any other length is taken for none, and so is no number.       *)
ParsePsync(args) ==
  IF Len(args) < 2 \/ ~ AllBulk(SubSeq(args, 1, 2)) THEN NoCommand
  ELSE <<"psync",
         IF Len(args[1][2]) # IdLength THEN <<"no id">> ELSE <<"id", args[1][2]>>,
         IF FitsU64(args[2][2]) THEN <<"offset", IntOf(args[2][2])>> ELSE <<"no offset">> >>

(* What comes behind PING, MULTI, EXEC and DISCARD is not looked at.       *)
ParseCommand(vs) ==
  IF ~ StartsBulk(vs) THEN NoCommand
  ELSE CASE vs[1][2] = SetWord      -> ParseSet(vs)
         [] vs[1][2] = GetWord      -> OneWord("get", Tail(vs))
         [] vs[1][2] = PingWord     -> <<"ping">>
         [] vs[1][2] = EchoWord     -> OneWord("echo", Tail(vs))
         [] vs[1][2] = ConfigWord   -> ParseConfig(Tail(vs))
         [] vs[1][2] = KeysWord     -> ParseKeys(Tail(vs))
         [] vs[1][2] = IncrWord     -> OneWord("incr", Tail(vs))
         [] vs[1][2] = MultiWord    -> <<"multi">>
         [] vs[1][2] = ExecWord     -> <<"exec">>
         [] vs[1][2] = DiscardWord  -> <<"discard">>
         [] vs[1][2] = InfoWord     -> ParseInfo(Tail(vs))
         [] vs[1][2] = ReplconfWord -> ParseReplconf(Tail(vs))
         [] vs[1][2] = PsyncWord    -> ParsePsync(Tail(vs))
         [] OTHER                   -> NoCommand
=============================================================================
