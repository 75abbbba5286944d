------------------------- MODULE MCProtocolHandlers -------------------------
(* A handshake and what may be different about it, one thing at a time; and *)
(* frames of every kind that the handlers tell apart.                       *)
EXTENDS ProtocolHandlers

Names == INSTANCE HttpParser

Field(name, items) == [name |-> name, items |-> items]
Fields == <<Field(Names!Name["host"], << <<"x">> >>),
            Field(Names!Name["connection"], << <<"u", "pgrade">> >>),
            Field(Names!Name["upgrade"], << <<"w", "ebsocket">> >>),
            Field(Names!Name["key"], << <<"b", "b">> >>),
            Field(Names!Name["version"], << <<"1", "3">> >>)>>

User(value) == <<(<<"user_id">>), value>>
Handshake == [method |-> <<"G", "ET">>, path |-> <<"/", "c", "hat">>, args |-> <<User(<<"7">>)>>,
              version |-> <<"H", "TTP/1.1">>, fields |-> Fields]

WithUri(path, args) == [Handshake EXCEPT !.path = path, !.args = args]
WithField(f) == [Handshake EXCEPT !.fields = Append(@, f)]
WithItems(i, items) == [Handshake EXCEPT !.fields[i].items = items]

ManyUris ==
  {WithUri(Handshake.path, args) :
     args \in {<<>>, <<User(<<"x">>)>>, <<User(<<>>)>>, << <<<<>>, <<"7">>>> >>,
               <<User(<<"7", "#">>)>>, <<User(<<"7", " ">>)>>,
               << <<<<"k", "+">>, <<"%", "6", "3">>>>, User(<<"7">>)>>,
               <<User(<<"7">>), User(<<"x">>)>>, <<User(<<"x">>), User(<<"7">>)>>,
               <<User(<<"7", "+">>), <<<<"%", "6", "x">>, <<"v">>>>>>,
               <<User(<<"7">>), <<<<"k">>, <<"v", "v">>>>>>}}
  \cup {WithUri(path, Handshake.args) :
          path \in {<<"/", "document">>, <<"/", "%", "6", "3", "hat">>, <<"/", "x">>, <<"x">>,
                    <<"/", "c", "#">>, <<"/", "%", "x">>,
                    <<"/", "x", "x", "x", "x", "x", "x", "x", "x", "x">>}}

ManyFields ==
  {[Handshake EXCEPT !.fields = RemoveAt(@, i)] : i \in DOMAIN Fields}
  \cup {[Handshake EXCEPT !.fields = Reverse(@)]}
  \cup {[Handshake EXCEPT !.fields[i].name = Front(@)] : i \in DOMAIN Fields}
  \cup {[Handshake EXCEPT !.fields[i].name = Append(@, "x")] : i \in DOMAIN Fields}
  \cup {[WithField(Field(Front(Fields[i].name), Fields[i].items)) EXCEPT !.fields[i].items = << <<"x">> >>] :
          i \in {2, 3, 5}}
  \cup {WithField(Field(Append(Fields[i].name, "x"), << <<"x">> >>)) : i \in DOMAIN Fields}
  \cup {WithField(Field(name, << <<"x">> >>)) :
          name \in {<<"x">>, Names!Name["origin"], Names!Name["protocol"], <<"h", "x">>, <<>>,
                    <<"x", "/">>, [n \in 1..ElementSize |-> "x"]}}
  \cup {WithItems(i, items) : i \in 2..5, items \in {<< <<>> >>, << <<>>, <<"x">> >>, << <<"x">> >>}}
  \cup UNION {{WithItems(i, << <<"x">>, item >>), WithItems(i, <<item, <<"x">> >>),
               WithItems(i, << Append(item, "x") >>), WithItems(i, << Front(item), item >>),
               WithItems(i, << Append(Front(item), "x"), item >>)} :
                 <<i, item>> \in {<<2, <<"u", "pgrade">>>>, <<3, <<"w", "ebsocket">>>>, <<5, <<"1", "3">>>>}}
  \cup {WithItems(4, << key >>) : key \in {<<"b">>, <<"b", "b", "b">>, <<"b", "junk">>, <<"b", "b", " ">>}}
  \cup {WithItems(1, << <<"x", "x", "x", "x", "x", "x", "x">> >>)}

MCRequests ==
  {Handshake, [Handshake EXCEPT !.method = <<"x", "ET">>], [Handshake EXCEPT !.method = <<"G", "x">>],
   [Handshake EXCEPT !.version = <<"x", "TTP/1.1">>], [Handshake EXCEPT !.version = <<"H", "x">>],
   [Handshake EXCEPT !.version = <<" ", "H", "TTP/1.1">>],
   [Handshake EXCEPT !.version = <<"H", "TTP/1.1", "x">>]}
  \cup ManyUris \cup ManyFields

Frame(fin, opcode, payload) ==
  [fin |-> fin, opcode |-> opcode, payload |-> payload, masked |-> TRUE, form |-> 7]
MCFrames ==
  {Frame(TRUE, 1, <<1, 2>>), Frame(FALSE, 1, <<1>>), Frame(FALSE, 0, <<1>>), Frame(TRUE, 0, <<2>>),
   Frame(TRUE, 8, <<>>), Frame(TRUE, 9, <<>>), Frame(TRUE, 10, <<3>>), Frame(TRUE, 10, <<>>),
   Frame(TRUE, 3, <<>>),
   [Frame(TRUE, 2, <<2>>) EXCEPT !.form = 16],
   [Frame(TRUE, 1, <<1, 2, 1>>) EXCEPT !.form = 64],
   [Frame(TRUE, 1, <<1>>) EXCEPT !.masked = FALSE]}
MCMask == <<1, 6>>
MCPingPayload == <<3>>
=============================================================================
