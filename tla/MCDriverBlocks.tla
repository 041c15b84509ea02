--------------------------- MODULE MCDriverBlocks ---------------------------
(* Small models of blocks with the library's S-functions, for TLC *)
EXTENDS DriverBlocks

Value(class, rows, elements) ==
    [class |-> class, rows |-> rows,
     columns |-> IF rows = 0 THEN 0 ELSE Len(elements) \div rows, elements |-> elements]
Row(elements) == Value("double", 1, elements)
Number(n) == Row(<<n>>)
Bytes(text) == IF text = <<>> THEN Value("numeric", 0, <<>>) ELSE Value("numeric", 1, text)

UDP(port, device, ttl, receive, size) ==
    <<Number(port), Bytes(device), Number(Len(device)), Number(0), Number(0), Number(0),
      Number(0), Number(0), Number(ttl), Row(<<0, 0, 0, 0>>), Number(IF receive THEN 0 ELSE 1),
      Number(size), Number(-1)>>
TCP(port, priority, receive, size) ==
    <<Number(port), Bytes(<<>>), Number(0), Number(priority),
      Number(IF receive THEN 0 ELSE 1), Number(size), Number(1), Number(-1)>>
Recorder(type, id, bytes, signals, flag) ==
    <<Number(type), Bytes(id), Number(Len(id)), Number(10), Number(bytes), Number(signals),
      Bytes(<<97>>), Number(1), Bytes(<<49>>), Number(1), Bytes(<<100>>), Number(1),
      Number(0), Number(flag), Number(-1)>>
Arguments(characters, arguments) == <<Number(characters), Number(arguments), Number(-1)>>
TaskName(name) == <<Bytes(name), Number(Len(name)), Number(-1)>>

Blocks(type, dialogs) == [type |-> type, dialogs |-> dialogs]

\* "a b" and "a_b" become the same ID.
A_B == <<97, 32, 98>>
A__B == <<97, 95, 98>>

Library ==
    [recorders |->
        <<Blocks("DataRecorder", <<Recorder(0, A_B, 1, 2, 1), Recorder(0, A_B, 1, 2, 0),
                                   Recorder(0, A_B, 1, 0, 1)>>),
          Blocks("DataRecorder", <<Recorder(1, <<99>>, 2, 1, 1), Recorder(1, A__B, 2, 1, 1),
                                   Recorder(1, A__B, 2, 1, 0)>>)>>,
     sockets |->
        <<Blocks("UDPSocket", <<UDP(1, <<101>>, 1, TRUE, 1), UDP(1, <<101>>, 1, TRUE, -1),
                                UDP(2, <<101>>, 1, TRUE, 1)>>),
          Blocks("UDPSocket", <<UDP(1, <<101, 10>>, 1, FALSE, 2), UDP(1, <<>>, 2, FALSE, 2)>>),
          Blocks("TCPClientSocket", <<TCP(1, 0, TRUE, 2), TCP(1, 0, FALSE, 0),
                                      TCP(2, 1, FALSE, 2)>>)>>,
     times |->
        <<Blocks("ModelExecutionTime", <<<<Number(1)>>>>),
          Blocks("ModelExecutionTime", <<<<Number(0)>>>>),
          Blocks("StopExecution", <<<<Number(-1)>>>>)>>,
     arguments |->
        <<Blocks("ApplicationArguments", <<Arguments(1, 2), Arguments(2, 1), Arguments(2, 0)>>),
          Blocks("ReadThermalZones", <<<<Number(1), Number(-1)>>, <<Number(2), Number(-1)>>>>),
          Blocks("NumTaskOverloads", <<TaskName(<<98>>), TaskName(<<98, 99>>)>>),
          Blocks("TaskExecutionTime", <<TaskName(<<98>>), TaskName(<<99>>)>>)>>,
     clocks |->
        <<Blocks("UnixTime", <<<<Number(-1)>>, <<Row(<<-1, 1>>)>>, <<Row(<<2, 1>>)>>>>),
          Blocks("UTCTimestamp", <<<<Row(<<1, 1>>)>>, <<Row(<<0, 1>>)>>>>),
          Blocks("UTCTime", <<<<Number(1)>>, <<Value("char", 1, <<1>>)>>>>),
          Blocks("LocalTime", <<<<Row(<<2, 1, 0>>)>>, <<Number(2)>>>>),
          Blocks("NumCPUOverloads", <<<<Number(0)>>, <<Number(-2)>>>>)>>]

\* As a table, which TLC evaluates once.
ModelsOfLibrary == [m \in DOMAIN Library |-> Library[m]]

WidthsOfSignals == {-1, 2}
=============================================================================
