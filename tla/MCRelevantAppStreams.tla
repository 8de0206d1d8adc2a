------------------------- MODULE MCRelevantAppStreams -------------------------
(* RelevantAppStreams over a catalogue in which two modules share a package,
   packages with different versions, starts or ends share a stream, three
   streams share a name, and streams of two majors are one product. *)
EXTENDS RelevantAppStreams, TLC

CONSTANTS h1, h2, h3

Entity(stream, name, version, rank, start, end) ==
    [stream |-> stream, name |-> name, version |-> version, rank |-> rank,
     start |-> start, end |-> end]

(* scala and maven are modules that share jansi; nodejs exists with and without
   a minor and as a package of RHEL 9.  The packages of Python 3.11 differ in
   version and end, those of gcc-toolset 16 in their start; python-ply has a
   stream "3.11^2025" that is no version. *)
Catalogue ==
    "scala"         :> Entity("Scala 2.10", "scala", <<2, 10, 0>>, 4, 0, 2) @@
    "maven"         :> Entity("Maven 3.5", "maven", <<3, 5, 0>>, 11, 0, 9) @@
    "nodejs:10"     :> Entity("Node.js 10", "nodejs", <<10, 0, 0>>, 1, 0, 2) @@
    "nodejs:22"     :> Entity("Node.js 22", "nodejs", <<22, 0, 0>>, 6, 1, 9) @@
    "nodejs-el9"    :> Entity("Node.js 22 EL9", "nodejs", <<22, 0, 0>>, 6, 2, 4) @@
    "python"        :> Entity("Python 3.11", "python3.11", <<3, 11, 2>>, 7, 1, 2) @@
    "python-debug"  :> Entity("Python 3.11", "python3.11-debug", <<3, 11, 9>>, 9, 1, 4) @@
    "requests"      :> Entity("Python 3.11", "python3.11-requests", <<2, 28, 1>>, 5, 1, 9) @@
    "python39"      :> Entity("Python 3.9", "python3.9", <<3, 9, 18>>, 12, 0, 9) @@
    "python312-lib" :> Entity("Python 3.12", "python3.12-lib", <<3, 11, 5>>, 8, 2, 9) @@
    "python-ply"    :> Entity("Python 3.14", "python3.14-ply", <<3, 11, 0>>, 10, 2, 9) @@
    "gcc16"         :> Entity("gcc-toolset 16", "gcc-toolset-16", <<16, 0, 0>>, 3, 0, 9) @@
    "gcc16-binutils" :> Entity("gcc-toolset 16", "gcc-toolset-16-binutils", <<16, 0, 0>>, 3, 5, 9) @@
    "gcc15-el9"     :> Entity("gcc-toolset 15", "gcc-toolset-15", <<15, 0, 0>>, 2, 2, 9) @@
    "rust"          :> Entity("Rust", "rust", <<1, 60, 0>>, 0, 0, 0)

Stream(major, minor, product, list, depth) ==
    [major |-> major, minor |-> minor, product |-> product, list |-> list, depth |-> depth]

StreamTable ==
    "Scala 2.10"     :> Stream(8, NoMinor, "Scala", "scala", 2) @@
    "Maven 3.5"      :> Stream(8, NoMinor, "Maven", "maven", 2) @@
    "Node.js 10"     :> Stream(8, NoMinor, "Node.js", "nodejs", 1) @@
    "Node.js 22"     :> Stream(8, 10, "Node.js", "nodejs", 1) @@
    "Node.js 22 EL9" :> Stream(9, 5, "Node.js", "Node.js 22", 1) @@
    "Python 3.11"    :> Stream(9, 2, "Python", "Python 3.11", 2) @@
    "Python 3.9"     :> Stream(9, 0, "Python", "Python 3.9", 2) @@
    "Python 3.12"    :> Stream(9, 4, "Python", "Python 3.12", 2) @@
    "Python 3.14"    :> Stream(9, 8, "Python", "Python 3.14", 2) @@
    "gcc-toolset 16" :> Stream(8, 10, "gcc-toolset", "gcc-toolset 16", 1) @@
    "gcc-toolset 15" :> Stream(9, 7, "gcc-toolset", "gcc-toolset 15", 1) @@
    "Rust"           :> Stream(9, 0, "Rust", "Rust", 2)

MCEntities == DOMAIN Catalogue
MCModules  == {"scala", "maven", "nodejs:10", "nodejs:22"}
MCStreams  == DOMAIN StreamTable
MCStreamOf  == [e \in MCEntities |-> Catalogue[e].stream]
MCShortName == [e \in MCEntities |-> Catalogue[e].name]
MCVersion   == [e \in MCEntities |-> Catalogue[e].version]
MCTextRank  == [e \in MCEntities |-> Catalogue[e].rank]
MCStartDay  == [e \in MCEntities |-> Catalogue[e].start]
MCEndDay    == [e \in MCEntities |-> Catalogue[e].end]
MCMajor     == [s \in MCStreams |-> StreamTable[s].major]
MCMinor     == [s \in MCStreams |-> StreamTable[s].minor]
MCProduct   == [s \in MCStreams |-> StreamTable[s].product]
MCListName  == [s \in MCStreams |-> StreamTable[s].list]
MCDepth     == [s \in MCStreams |-> StreamTable[s].depth]

List(module, entity, names) ==
    [module |-> module, major |-> 8, entity |-> entity, names |-> names]

MCModuleLists == {
    List("scala", "scala", {"scala", "jansi"}),
    List("maven", "maven", {"maven", "jansi", "maven-lib"}),
    List("log4j", NoEntity, {"log4j"})}

Module(entity, status) == [entity |-> entity, status |-> status]
Package(name, version) == [name |-> name, version |-> version]
Reports(major, modules, packages) ==
    [major |-> major, modules |-> modules, packages |-> packages]

MCProfiles == {
    \* enabled modules, of which jansi verifies none and maven-lib one
    Reports(8, {Module("scala", {"enabled"}), Module("maven", {"enabled", "installed"})},
               {Package("jansi", <<1, 4>>), Package("maven-lib", <<3, 5>>)}),
    \* scala verified by its own name, a module without a list, another retired one
    Reports(8, {Module("scala", {"enabled"}), Module("nodejs:22", {"enabled"}),
                Module("nodejs:10", {"installed"})},
               {Package("jansi", <<1, 4>>), Package("scala", <<2, 10>>)}),
    \* streams of which other hosts have another entity
    Reports(8, {Module("nodejs:10", {"installed"}), Module("maven", {"disabled"})},
               {Package("gcc-toolset-16", <<16, 1>>)}),
    Reports(8, {Module("nodejs:10", {"default"}), Module("nodejs:22", {"installed"})},
               {Package("gcc-toolset-16-binutils", <<16, 1>>)}),
    Reports(9, {}, {Package("python3.11-requests", <<2, 28>>), Package("python3.9", <<3, 8>>)}),
    \* packages of one stream, of a rolling stream, and of another version
    Reports(9, {}, {Package("python3.11", <<3, 11>>), Package("python3.11-debug", <<3, 11>>),
                    Package("rust", <<1, 60>>)}),
    Reports(9, {}, {Package("python3.11-debug", <<3, 11>>), Package("nodejs", <<22, 7>>)}),
    Reports(9, {}, {Package("python3.11", <<3, 9>>), Package("python3.9", <<3, 9>>)}),
    Reports(NoMajor, {Module("scala", {"installed"})}, {Package("rust", <<1, 60>>)})}

HostSymmetry == Permutations(Hosts)
=============================================================================
