--------------------------- MODULE ContainerParsers ---------------------------
(***************************************************************************)
(* LogParser, DockerParser and KubernetesParser of the collector agent.    *)
(* They raise for no output: what they cannot read they leave out, one line*)
(* or container at a time, or, for Kubernetes, the rest of a list.         *)
(***************************************************************************)
EXTENDS CommandOutput

(* LogParser.parse_line.  Lines of syslog begin with month, day and time,  *)
(* others with one field; then come the host and, unless the host ends with*)
(* a colon, the process.  A time that cannot be read becomes now.          *)
Months == {"jan", "feb", "mar", "apr", "may", "jun", "jul", "aug", "sep", "oct", "nov", "dec"}

LogEntry(line, host, stamped) ==
    LET colon == line[host].kind = "colon"
        token == IF ~colon /\ Len(line) > host THEN line[host + 1] ELSE Word("unknown")
    IN [stamp |-> IF stamped THEN SubSeq(line, 1, host - 1) ELSE <<Word("now")>>,
        hostname |-> line[host].word, process_name |-> token.word,
        pid |-> IF token.kind = "process" THEN <<token.num>> ELSE <<>>,
        message |-> SubSeq(line, IF colon THEN host + 1 ELSE host + 2, Len(line))]

parse_line(line) ==
    IF Len(line) < 2 THEN <<>>
    ELSE IF line[1].word \in Months
         THEN IF Len(line) < 4 THEN <<>>
              ELSE <<LogEntry(line, 4, IsNumber(line[2]) /\ line[3].kind = "clock")>>
    ELSE <<LogEntry(line, 2, line[1].kind = "clock")>>

(* The entries of journalctl, then of syslog, then of messages.            *)
LogParser(journalctl, syslog, messages) ==
    FlattenSeq(Each(journalctl \o syslog \o messages, parse_line))

-------------------------------------------------------------------------------
(* A size in bytes: the number times a power of 1000 or of 1024; a unit    *)
(* that is not listed counts as bytes.                                     *)
multipliers ==
    [u \in {"KB", "MB", "GB", "TB", "KIB", "MIB", "GIB", "TIB", "K", "M", "G"} |->
        <<IF u \in {"KB", "MB", "GB", "TB"} THEN 1000 ELSE 1024,
          CASE u \in {"KB", "KIB", "K"} -> 1 [] u \in {"MB", "MIB", "M"} -> 2
            [] u \in {"GB", "GIB", "G"} -> 3 [] u \in {"TB", "TIB"} -> 4>>]

(* <<number, base, exponent>>                                              *)
parse_size_in_bytes(field) ==
    IF field.kind \notin {"size", "number"} \/ field.num = 0 THEN <<0, 1, 0>>
    ELSE <<field.num>> \o (IF field.word \in DOMAIN multipliers THEN multipliers[field.word]
                           ELSE <<1, 0>>)

(* docker stats: id, name, cpu, usage / limit, mem, rx / tx, read / write, *)
(* pids.                                                                   *)
ContainerStats(parts) ==
    [container_id |-> parts[1], name |-> parts[2], cpu_percentage |-> parts[3].num,
     memory_percentage |-> parts[7].num, pids_count |-> parts[14].num,
     sizes |-> [i \in {4, 6, 8, 10, 11, 13} |-> parse_size_in_bytes(parts[i])]]

(* The first line is the header, whatever it says.                         *)
Body(lines) == IF lines = <<>> THEN <<>> ELSE Tail(lines)

parse_container_stats(lines) ==
    Each(Where(Body(lines), LAMBDA parts :
         /\ Len(parts) >= 14
         /\ {parts[3].kind, parts[7].kind} \subseteq {"percent", "number"}
         /\ IsNumber(parts[14])),
         ContainerStats)

(* docker inspect: one JSON list, or nothing.  An entry that is malformed  *)
(* is left out by itself.                                                  *)
ContainerMetadata(c) ==
    [container_id |-> c.id, name |-> c.name, state |-> c.state,
     restart_count |-> c.restarts, mounts |-> c.mounts]

(* Mutant: the whole list is read in one try block.                        *)
parse_container_metadata_in_one(inspect) ==
    IF inspect.json /\ \A i \in DOMAIN inspect.items : ~inspect.items[i].malformed
    THEN Each(inspect.items, ContainerMetadata) ELSE <<>>

parse_container_metadata(inspect) ==
    IF inspect.json
    THEN Each(Where(inspect.items, LAMBDA c : ~c.malformed), ContainerMetadata)
    ELSE <<>>

(* docker network ls and docker volume ls                                  *)
parse_networks(lines) ==
    Each(Where(Body(lines), LAMBDA parts : Len(parts) >= 4),
         LAMBDA parts : [network_id |-> parts[1], name |-> parts[2],
                         driver |-> parts[3], scope |-> parts[4]])

parse_volumes(lines) ==
    Each(Where(Body(lines), LAMBDA parts : Len(parts) >= 2),
         LAMBDA parts : [driver |-> parts[1], name |-> parts[2]])

DockerParser(inspect, stats, networks, volumes) ==
    [containers |-> parse_container_metadata(inspect),
     stats |-> parse_container_stats(stats),
     networks |-> parse_networks(networks), volumes |-> parse_volumes(volumes)]

-------------------------------------------------------------------------------
(* kubectl get -o json.  An object is a function of the keys it has; a key *)
(* that is absent, or null, reads as a default.                            *)
Key(object, key, default) == IF key \in DOMAIN object THEN object[key] ELSE default
Named(object, key) == Key(object, key, Word("unknown"))
None == <<>>
Some(object, key) == IF key \in DOMAIN object THEN <<object[key]>> ELSE None

(* What is not JSON is left out.  The items of a list are read in one try  *)
(* block: the first that is malformed ends the list.                       *)
Readable(list) ==
    LET bad == SelectInSeq(list.items, LAMBDA item : "malformed" \in DOMAIN item)
    IN IF ~list.json THEN <<>>
       ELSE IF bad = 0 THEN list.items ELSE SubSeq(list.items, 1, bad - 1)

ClusterInfo(version) ==
    LET client == Named(version, "clientVersion")
    IN [api_server_version |-> Some(version, "serverVersion"),
        kubernetes_version |-> IF client = Word("unknown") THEN Named(version, "gitVersion")
                               ELSE client]

NamespaceInfo(item) ==
    [name |-> Named(item, "name"), status |-> Named(item, "phase"),
     labels |-> Key(item, "labels", {})]

(* A label that names a role has the prefix node-role.kubernetes.io.     *)
NodeInfo(item) ==
    LET labels == Key(item, "labels", {})
        internal == Where(Key(item, "addresses", <<>>), LAMBDA a : a.type = "InternalIP")
    IN [name |-> Named(item, "name"), labels |-> labels,
        roles |-> {label \in labels : label.kind = "role"},
        internal_ip |-> IF internal = <<>> THEN None ELSE <<internal[1].address>>,
        info |-> [key \in {"osImage", "kernelVersion", "containerRuntimeVersion",
                            "kubeletVersion"} |-> Named(Key(item, "nodeInfo", <<>>), key)],
        capacity |-> Key(item, "capacity", <<>>), allocatable |-> Key(item, "allocatable", <<>>)]

(* The containers come before the init containers; one without an image is *)
(* left out.                                                               *)
PodInfo(item) ==
    LET statuses == Key(item, "containerStatuses", <<>>) \o Key(item, "initContainerStatuses", <<>>)
        containers == Key(item, "containers", <<>>) \o Key(item, "initContainers", <<>>)
    IN [namespace |-> Named(item, "namespace"), pod_name |-> Named(item, "name"),
        uid |-> Named(item, "uid"), node_name |-> Some(item, "nodeName"),
        phase |-> Named(item, "phase"), pod_ip |-> Some(item, "podIP"),
        host_ip |-> Some(item, "hostIP"),
        start_time |-> Where(Some(item, "startTime"), LAMBDA time : time.kind = "clock"),
        restart_count |-> FoldLeft(LAMBDA sum, status : sum + Key(status, "restartCount", 0),
                                   0, statuses),
        container_images |-> FlattenSeq(Each(containers, LAMBDA c : Some(c, "image")))]

DeploymentInfo(item) ==
    [namespace |-> Named(item, "namespace"), deployment_name |-> Named(item, "name"),
     desired_replicas |-> Key(item, "replicas", 1),
     available_replicas |-> Key(item, "availableReplicas", 0),
     updated_replicas |-> Key(item, "updatedReplicas", 0)]

(* The addresses of the load balancer follow the ones of the spec.         *)
ServiceInfo(item) ==
    [namespace |-> Named(item, "namespace"), service_name |-> Named(item, "name"),
     type |-> Key(item, "type", Word("ClusterIP")),
     cluster_ip |-> Key(item, "clusterIP", Word("None")),
     external_ip |-> Key(item, "externalIPs", <<>>)
                     \o FlattenSeq(Each(Key(item, "ingress", <<>>), LAMBDA i :
                            IF "ip" \in DOMAIN i THEN <<i.ip>> ELSE Some(i, "hostname"))),
     ports |-> Each(Key(item, "ports", <<>>), LAMBDA p :
                  [name |-> Some(p, "name"), port |-> p.port,
                   protocol |-> Key(p, "protocol", Word("TCP")),
                   target_port |-> Some(p, "targetPort")])]

(* An event without any time is left out; one whose time cannot be read    *)
(* happened now.                                                           *)
EventTime(item) ==
    Some(item, "lastTimestamp") \o Some(item, "eventTime") \o Some(item, "firstTimestamp")

EventInfo(item) ==
    LET time == EventTime(item)[1]
        object == Key(item, "involvedObject", <<>>)
    IN [timestamp |-> IF time.kind = "clock" THEN time ELSE Word("now"),
        namespace |-> Key(item, "namespace", Word("default")),
        involved_object |-> [kind |-> Named(object, "kind"), name |-> Named(object, "name"),
                             namespace |-> Some(object, "namespace")],
        reason |-> Named(item, "reason"), message |-> Key(item, "message", Word("")),
        type |-> Key(item, "type", Word("Normal"))]

KubernetesParser(namespaces, nodes, pods, deployments, services, events, version) ==
    [cluster |-> ClusterInfo(version),
     namespaces |-> Each(Readable(namespaces), NamespaceInfo),
     nodes |-> Each(Readable(nodes), NodeInfo), pods |-> Each(Readable(pods), PodInfo),
     deployments |-> Each(Readable(deployments), DeploymentInfo),
     services |-> Each(Readable(services), ServiceInfo),
     events |-> Each(Where(Readable(events), LAMBDA item : EventTime(item) # <<>>),
                     EventInfo)]
===============================================================================
