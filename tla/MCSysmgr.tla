-------------------------------- MODULE MCSysmgr --------------------------------
EXTENDS Sysmgr

MCNiceMin == -1
MCNiceAsked == {-1, 2}

MCcandidates == <<"sl", "cowsay">>
MCNeeds ==
  [p \in Package |-> CASE p = "sl" -> {"python", "perl"} [] p = "perl" -> {} [] OTHER -> {"perl"}]

MCPath == {<<"a">>, <<"d">>, <<"d", "a">>, <<"--help">>}
MCSize == [d \in Data |-> CASE d = "long" -> 5 [] d = "tar" -> 2 [] d = "-n" -> 1 [] OTHER -> 0]

MCInterface == <<"lo", "eth0", "docker0">>
MCZero == <<0, 0>>
MCAddress == {MCZero, <<10, 1>>, <<10, 2>>}

MCWord == {<<>>, <<"x">>, <<"x", Space, "y">>}
===============================================================================
