SPECIFICATION FairSpec
CONSTANTS
    Hosts <- MCHosts
    RouterIps <- MCRouterIps
    Elsewhere <- MCElsewhere
    Ifaces <- MCIfaces
    HostIf <- MCHostIf
    IpOf <- MCIpOf
    Macs <- MCMacs
    Cards <- MCCards
    RouteOf <- MCRouteOf
    Header <- MCHeader
    Packets = {"toH1", "toH1again", "h1toH2", "broken", "expired", "echo", "lost"}
    Chatter = {"h2"}
    Lossy = FALSE
    Paced = TRUE
    RxCap = 3
    NoMac = NoMac
    NoRoute = NoRoute
    None = None
CHECK_DEADLOCK FALSE
PROPERTIES ImplementsForwarding AllSettled
