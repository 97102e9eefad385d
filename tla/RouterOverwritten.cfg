SPECIFICATION Spec
CONSTANTS
    Hosts <- MCHosts
    RouterIps <- MCRouterIps
    Elsewhere <- MCElsewhere
    Ifaces <- MCIfaces
    HostIf <- MCHostIf
    IpOf <- MCIpOf
    Macs <- MCMacs
    Cards <- MCCards
    RouteOf <- MCRouteOf
    Header <- MCHeader
    Packets = {"toH1", "toH2"}
    Chatter = {}
    Lossy = FALSE
    Paced = FALSE
    RxCap = 2
    NoMac = NoMac
    NoRoute = NoRoute
    None = None
CHECK_DEADLOCK FALSE
INVARIANTS AtRestSettled
