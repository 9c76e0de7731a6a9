SPECIFICATION InterfacesSpec
CONSTANTS
    i1 = i1
    i2 = i2
    a1 = a1
    a2 = a2
    a3 = a3
    lo = lo
    net1 = net1
    net2 = net2
    Interface = {i1, i2}
    Address <- Addresses
    Loopback <- Lo
    HomeOf <- Homes
    Remote = {r}
    r = r
    Socket = {1, 2, 3, 4, 5, 6}
INVARIANT
    ReceiverIsOwn
