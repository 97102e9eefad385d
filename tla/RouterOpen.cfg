SPECIFICATION Spec
CONSTANTS
    Hosts <- MCHosts
    RouterIps <- MCRouterIps
    Elsewhere <- MCElsewhere
    Ifaces <- MCIfaces
    HostIf <- MCHostIf
    IpOf <- MCIpOf
    Macs <- MCMacs
    Cards <- MCCardsReplaced
    RouteOf <- MCRouteOf
    Header <- MCHeader
    Packets = {"toH1", "toH2", "broken", "toFar"}
    Chatter = {"h2"}
    Lossy = TRUE
    Paced = FALSE
    RxCap = 3
    NoMac = NoMac
    NoRoute = NoRoute
    None = None
CHECK_DEADLOCK FALSE
INVARIANTS TypeOK QueueUnresolved ForwardedRight
