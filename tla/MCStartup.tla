------------------------------ MODULE MCStartup ------------------------------
(* Bounds for Startup: command lines, and what plain clients send.         *)
EXTENDS Startup

CommandLine(replicaof, port, file) == [replicaof |-> replicaof, port |-> port, file |-> file]

(* A port, none, one too many; as a replica, as a master, and as the       *)
(* README shows it.                                                        *)
ReadmeLine == { CommandLine("port only", <<"6", "3", "8", "0">>, TRUE) }

EveryLine == ReadmeLine \cup
  { CommandLine("host and port", NotGiven, FALSE),
    CommandLine("host and port", <<"8", "0">>, TRUE),
    CommandLine("host and port", <<"6", "5", "5", "3", "6">>, FALSE),
    CommandLine(NotGiven, <<"+", "8", "0">>, TRUE),
    CommandLine(NotGiven, <<"8", "x">>, FALSE) }

Key == <<"k", "1">>
Id == <<"a", "b", "c">>
Num(n) == <<":">> \o Decimal[n] \o CrLf

(* An array of texts of values, for arguments that are no strings.         *)
Values(texts, means) ==
  [text |-> <<"*">> \o Decimal[Len(texts)] \o CrLf \o FlattenSeq(texts),
   means |-> means, short |-> {}]

OrShort(request, cmds) == [request EXCEPT !.short = cmds]

SetOf(px) == <<"set", Key, <<"v">>, px>>
InfoOf(words) == <<"info", words>>
CapaOf(words) == <<"capa", words>>

(* Requests whose last arguments may be missing.                           *)
Shortened ==
  { <<OrShort(ToSend(<<SetWord, Key, <<"v">>, PxWord, <<"5">> >>, SetOf(<<"px", 5>>)),
              {SetOf(<<"no px">>)}),
      ToSend(<<GetWord, Key>>, <<"get", Key>>)>>,
    <<OrShort(ToSend(<<InfoWord, ReplicationWord, Key, ReplicationWord>>,
                     InfoOf(<<ReplicationWord, ReplicationWord>>)),
              {InfoOf(<<>>), InfoOf(<<ReplicationWord>>)}),
      ToSend(<<KeysWord, <<"k", "*">> >>, <<"keys", <<"k", ".", "*">> >>)>>,
    <<OrShort(ToSend(<<ReplconfWord, CapaWord, EofWord, Key, Psync2Word>>,
                     CapaOf(<<EofWord, Psync2Word>>)),
              {CapaOf(<<EofWord>>)}),
      ToSend(<<ConfigWord, GetWord, DirWord>>, <<"config", DirWord>>)>>,
    <<OrShort(Values(<<BulkText(InfoWord), Num(1)>>, NoCommand), {InfoOf(<<>>)}),
      ToSend(<<IncrWord, Key>>, <<"incr", Key>>)>> }

(* A PSYNC with an id, numbers that are none, missing and unknown words.   *)
Others ==
  { <<ToSend(<<PsyncWord, Id, <<"7">> >>, NoCommand),
      ToSend(<<EchoWord, Key>>, <<"echo", Key>>)>>,
    <<ToSend(<<ReplconfWord, AckWord, <<"9">> >>, <<"ack", 9>>),
      ToSend(<<ReplconfWord, AckWord, <<"-", "9">> >>, NoCommand),
      ToSend(<<PingWord, Key>>, <<"ping">>)>>,
    <<ToSend(<<Key>>, NoCommand), ToSend(<<>>, NoCommand), ToSend(<<PingWord>>, <<"ping">>)>>,
    <<Values(<<BulkText(ReplconfWord), BulkText(GetackWord), Num(7)>>, NoCommand),
      ToSend(<<ReplconfWord, GetackWord, <<"*">> >>, <<"getack", <<"*">> >>),
      ToSend(<<GetWord>>, NoCommand)>> }

EveryScript == Shortened \cup Others
NoScript == {}
=============================================================================
