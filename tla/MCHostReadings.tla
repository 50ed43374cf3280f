---------------------------- MODULE MCHostReadings ----------------------------
EXTENDS HostReadings

Partition(device, total, percent, mount) ==
    [device |-> Word(device), fstype |-> Word("ext4"), total |-> total,
     used |-> (total * percent) \div 100, percent |-> percent, mount |-> mount]

Root(percent) == Partition("/dev/sda1", 20480, percent, Word("/"))
Boot == Partition("/dev/sda2", 512, 20, Field("efi path", "/boot/efi", 0))
Data(percent) == Partition("/dev/sdb1", 1050000, percent, Word("/data"))
Small == Partition("/dev/sdc1", 512, 81, Word("/var"))
Run == Partition("tmpfs", 100, 100, Word("/run"))
Udev(device) == Partition(device, 3993, 0, Word("/dev"))
Snap == Partition("/dev/loop0", 64, 100, Field("snap path", "/snap/core", 0))

Disks ==
    {<<Root(50)>>, <<Run, Root(85), Data(40)>>, <<Root(50), Boot, Data(96)>>,
     <<Root(85), Data(99)>>, <<Snap, Small, Run>>,
     <<Udev("udev"), Udev("devtmpfs"), Root(95)>>}

Systems ==
    {[hostname |-> Word("web1"), cores |-> IF minutes < 1440 THEN 128 ELSE 1, minutes |-> minutes] :
        minutes \in {5, 60, 125, 1440, 1505, 4445}}

Addresses(family) ==
    {<<>>} \union
    {<<[interface |-> Word("lo"), family |-> "inet", ip |-> "127.0.0.1"],
       [interface |-> Word("eth0"), family |-> "inet", ip |-> "10.0.0.5"],
       [interface |-> Word("lo"), family |-> family, ip |-> "::1"],
       [interface |-> Word("eth0"), family |-> family, ip |-> "10.0.0.6"]>>}

Networks ==
    {[addresses |-> addresses, sockets |-> sockets,
      interfaces |-> Each(names, LAMBDA n : [name |-> n, rx |-> 7, tx |-> 9])] :
        addresses \in Addresses("inet") \union Addresses("inet6"),
        sockets \in {<<>>, <<[address |-> <<192, 168, 1, 10>>, port |-> 443],
                             [address |-> <<127, 0, 0, 1>>, port |-> 65535]>>},
        names \in {<<>>, <<"lo">>, <<"lo", "eth0">>}}

Services ==
    {<<>>} \union
    {<<[name |-> "cron", active |-> "active", pid |-> 11],
       [name |-> "nginx", active |-> active, pid |-> pid],
       [name |-> "backup", active |-> "inactive", pid |-> 0]>> :
        active \in {"active", "failed"}, pid \in {311, 312}}
    \union {<<[name |-> "nginx", active |-> "active", pid |-> 313]>>}

Loads == [cpu : {8000, 8010, 9500}, memory : {800, 805, 960}, comma : BOOLEAN]

Container(id, malformed, running, restarts) ==
    [id |-> Word(id), name |-> Word(id), malformed |-> malformed, running |-> running,
     restarts |-> restarts, memory |-> 512, state |-> Word("running"), mounts |-> <<>>]

Containers ==
    {<<Container("a", malformed, running, 2), Container("b", FALSE, TRUE, 0)>> :
        malformed, running \in BOOLEAN} \union {<<Container("b", FALSE, TRUE, 1)>>, <<>>}

Pod(name, statuses) ==
    [name |-> Word(name), containerStatuses |-> statuses,
     initContainerStatuses |-> <<[restartCount |-> 1]>>, containers |-> <<[image |-> Word("a")]>>]
Malformed == [malformed |-> TRUE, name |-> Word("bad")]

Clusters ==
    {<<<<[name |-> Word("default"), phase |-> Word("Active")]>>,
       <<[name |-> Word("node"), labels |-> {Field("role", "master", 0)},
          addresses |-> <<[type |-> "InternalIP", address |-> Word("10.0.0.2")]>>]>>,
       pods,
       <<[name |-> Word("web")], [name |-> Word("db"), replicas |-> 3]>>,
       <<[name |-> Word("web"), externalIPs |-> <<Word("1.2.3.4")>>,
          ingress |-> <<[ip |-> Word("1.2.3.5")], [hostname |-> Word("lb")]>>,
          ports |-> <<[port |-> 80, targetPort |-> 8080]>>]>>,
       [clientVersion |-> Word("v1.29")],
       <<[lastTimestamp |-> Clock(1, 1), reason |-> Word("Created")], [reason |-> Word("Killing")],
         [eventTime |-> Word("soon"), reason |-> Word("BackOff")]>>>> :
        pods \in {<<>>, <<Pod("a", <<[restartCount |-> 2], [ready |-> TRUE]>>), Pod("b", <<>>)>>,
                  <<Pod("a", <<>>), Malformed, Pod("b", <<>>)>>}}

Line(stamp, text) == stamp \o <<Word("web1"), Process("cron", 11), Word(text)>>
Dated(day, text) == Line(<<Word("dec"), day, Clock(1, 2)>>, text)
Short == <<Word("dec"), Num(24), Clock(1, 2)>>

Logs ==
    [journal : {<<>>, <<Line(<<Clock(1, 2)>>, "ran"), <<Word("Started")>>>>},
     syslog : {<<>>, <<Short, Dated(Num(24), "oom"), Dated(Word("x"), "up")>>},
     messages : {<<>>, <<Dated(Num(25), "fail")>>}]

MCFacts ==
    [disks |-> Disks, system |-> Systems, network |-> Networks, services |-> Services,
     load |-> Loads, containers |-> Containers, cluster |-> Clusters, logs |-> Logs]
===============================================================================
